---- MODULE Spec2Model ----
(***************************************************************************)
(* A model of the calculation core of the Jyotish platform                 *)
(* (src/apps/api/src/services): the compatibility engine (matchmaking.py), *)
(* the auspicious-window search (muhurat.py, routers/muhurat.py) and the   *)
(* ephemeris / calendar services with their process-wide sidereal mode and *)
(* cached accessors (ephemeris.py, panchang.py).                           *)
(*                                                                         *)
(* Units.  Python floats and datetimes are modelled by exact integers:     *)
(*   - 8-factor points are counted in HALF points (0.5 -> 1, 8.0 -> 16);   *)
(*   - 10-factor scores are counted in TWENTIETHS (0.25 -> 5, 1.0 -> 20);  *)
(*   - the 8-factor percentage is kept as the numerator over 72, i.e.      *)
(*     percentage = 100 * total_half_points / 72;                          *)
(*   - instants are counted in eighths of a second (a timedelta of whole   *)
(*     seconds divided by 8 is exact in Python's microseconds);            *)
(*   - window scores are counted in 1/14400 of a point, so that            *)
(*     score + duration_hours * 2 is exact;                                *)
(*   - longitudes are counted in minutes of arc (360 deg = 21600').        *)
(***************************************************************************)
EXTENDS Integers, Sequences, FiniteSets, TLC

VARIABLES
    match,          \* the compatibility call in progress and its result
    search,         \* the window-search call in progress and its result
    sidMode,        \* swisseph's process-wide sidereal mode (swe.set_sid_mode)
    ephObjs,        \* heap of EphemerisService instances: id -> self.ayanamsa
    ephCache,       \* lru_cache(maxsize=1) of get_ephemeris_service
    panchangObjs,   \* the PanchangService instances constructed so far
    panchangSingleton, \* panchang.py module global _panchang_service
    muhuratSingleton,  \* muhurat.py module global _muhurat_service
    lastCalc,       \* the last operation observed and what it saw or returned
    panchangLog     \* every calculate_panchang call: inputs and result

matchVars == <<match>>
searchVars == <<search>>
svcVars == <<sidMode, ephObjs, ephCache, panchangObjs, panchangSingleton,
             muhuratSingleton, lastCalc, panchangLog>>
vars == <<match, search, sidMode, ephObjs, ephCache, panchangObjs,
          panchangSingleton, muhuratSingleton, lastCalc, panchangLog>>

NoValue == "None"

Max2(a, b) == IF a >= b THEN a ELSE b
Min2(a, b) == IF a <= b THEN a ELSE b

RECURSIVE SumSeq(_)
SumSeq(s) == IF s = <<>> THEN 0 ELSE Head(s) + SumSeq(Tail(s))

(***************************************************************************)
(* Compatibility engine: matchmaking.py                                    *)
(***************************************************************************)
Nakshatras == 1..27
Rashis == 1..12

NAKSHATRA_GANA ==
    <<1, 2, 3, 2, 1, 2, 1, 1, 3, 3, 2, 2, 1, 3, 1, 3, 1, 3, 3, 2, 2, 1, 3, 3,
      2, 2, 1>>

NAKSHATRA_YONI_ANIMAL ==
    <<"Horse", "Elephant", "Goat", "Serpent", "Serpent", "Dog", "Cat", "Goat",
      "Cat", "Rat", "Rat", "Buffalo", "Buffalo", "Tiger", "Buffalo", "Tiger",
      "Deer", "Deer", "Dog", "Monkey", "Mongoose", "Monkey", "Lion", "Horse",
      "Lion", "Cow", "Elephant">>

NAKSHATRA_YONI_GENDER ==
    <<"M", "M", "F", "M", "F", "F", "F", "M", "M", "M", "F", "M", "F", "F",
      "M", "M", "F", "M", "M", "M", "M", "F", "F", "F", "M", "F", "F">>

YONI_ENEMIES ==
    { <<"Horse", "Buffalo">>, <<"Elephant", "Lion">>, <<"Goat", "Monkey">>,
      <<"Serpent", "Mongoose">>, <<"Dog", "Deer">>, <<"Cat", "Rat">>,
      <<"Tiger", "Cow">> }

NAKSHATRA_NADI ==
    <<1, 2, 3, 3, 2, 1, 1, 2, 3, 1, 2, 3, 3, 2, 1, 1, 2, 3, 1, 2, 3, 3, 2, 1,
      1, 2, 3>>

RASHI_VARNA == <<4, 3, 3, 1, 4, 3, 3, 1, 4, 3, 3, 1>>

VASHYA_TYPES ==
    <<"Chatushpad", "Chatushpad", "Dwipad", "Keeta", "Chatushpad", "Dwipad",
      "Dwipad", "Keeta", "Chatushpad", "Jalachara", "Dwipad", "Jalachara">>

NAKSHATRA_RAJJU ==
    <<"Pada", "Kati", "Nabhi", "Nabhi", "Kati", "Pada", "Pada", "Kati",
      "Nabhi", "Nabhi", "Kati", "Pada", "Pada", "Kati", "Nabhi", "Nabhi",
      "Kati", "Pada", "Pada", "Kati", "Nabhi", "Nabhi", "Kati", "Pada",
      "Pada", "Kati", "Nabhi">>

VEDHA_PAIRS ==
    { <<1, 18>>, <<2, 17>>, <<3, 16>>, <<4, 15>>, <<5, 14>>, <<6, 13>>,
      <<7, 12>>, <<8, 11>>, <<9, 10>>, <<19, 27>>, <<20, 26>>, <<21, 25>>,
      <<22, 24>>, <<23, 23>> }

\* The sign-lord table local to _check_rasiyathipathi and
\* _check_graha_maitri_koota (the two copies are identical).
RashiLords ==
    <<"Mars", "Venus", "Mercury", "Moon", "Sun", "Mercury", "Venus", "Mars",
      "Jupiter", "Saturn", "Saturn", "Jupiter">>

\* A PortuthamResult: result is "pass" / "fail" / "partial", score in 1/20.
Porutham(name, result, score, essential) ==
    [name |-> name, result |-> result, score |-> score,
     is_essential |-> essential]

PassFail(name, ok) ==
    Porutham(name, IF ok THEN "pass" ELSE "fail", IF ok THEN 20 ELSE 0, FALSE)

\* _check_dinam
CheckDinam(bride_nak, groom_nak) ==
    LET count1 == ((groom_nak - bride_nak) % 27) + 1
        count2 == ((bride_nak - groom_nak) % 27) + 1
        inauspicious == {2, 4, 6, 8, 9}
    IN  PassFail("Dinam", count1 \notin inauspicious /\ count2 \notin inauspicious)

\* _check_ganam
CheckGanam(bride_nak, groom_nak) ==
    LET bride_gana == NAKSHATRA_GANA[bride_nak]
        groom_gana == NAKSHATRA_GANA[groom_nak]
    IN  IF bride_gana = groom_gana THEN Porutham("Ganam", "pass", 20, FALSE)
        ELSE IF bride_gana = 1 THEN Porutham("Ganam", "pass", 16, FALSE)
        ELSE IF groom_gana = 1 /\ bride_gana = 2
             THEN Porutham("Ganam", "pass", 14, FALSE)
        ELSE IF bride_gana = 3 \/ groom_gana = 3
             THEN Porutham("Ganam", "fail", 4, FALSE)
        ELSE Porutham("Ganam", "partial", 10, FALSE)

\* _check_mahendra
CheckMahendra(bride_nak, groom_nak) ==
    LET count == ((groom_nak - bride_nak) % 27) + 1
    IN  PassFail("Mahendra", count \in {4, 7, 10, 13, 16, 19, 22, 25})

\* _check_stree_deergham
CheckStreeDeergham(bride_nak, groom_nak) ==
    LET count == (groom_nak - bride_nak) % 27
    IN  PassFail("Stree Deergham", count >= 13)

\* _check_yoni
CheckYoni(bride_nak, groom_nak) ==
    LET bride_animal == NAKSHATRA_YONI_ANIMAL[bride_nak]
        groom_animal == NAKSHATRA_YONI_ANIMAL[groom_nak]
    IN  IF <<bride_animal, groom_animal>> \in YONI_ENEMIES
           \/ <<groom_animal, bride_animal>> \in YONI_ENEMIES
        THEN Porutham("Yoni", "fail", 0, FALSE)
        ELSE IF bride_animal = groom_animal
        THEN Porutham("Yoni", "pass", 20, FALSE)
        ELSE Porutham("Yoni", "pass", 14, FALSE)

\* _check_rashi_porutham
CheckRashiPorutham(bride_rashi, groom_rashi) ==
    LET count == ((groom_rashi - bride_rashi) % 12) + 1
    IN  IF count \in {6, 8} THEN Porutham("Rashi", "fail", 0, FALSE)
        ELSE IF count \in {1, 2, 3, 4, 5, 7, 9, 10, 11, 12}
        THEN Porutham("Rashi", "pass",
                      IF count \in {1, 5, 7, 9} THEN 20 ELSE 16, FALSE)
        ELSE Porutham("Rashi", "partial", 10, FALSE)

\* The friendship sets local to _check_rasiyathipathi.
RasiFriends(lord) ==
    CASE lord = "Sun" -> {"Moon", "Mars", "Jupiter"}
      [] lord = "Moon" -> {"Sun", "Mercury"}
      [] lord = "Mars" -> {"Sun", "Moon", "Jupiter"}
      [] lord = "Mercury" -> {"Sun", "Venus"}
      [] lord = "Jupiter" -> {"Sun", "Moon", "Mars"}
      [] lord = "Venus" -> {"Mercury", "Saturn"}
      [] lord = "Saturn" -> {"Mercury", "Venus"}
      [] OTHER -> {}

\* _check_rasiyathipathi
CheckRasiyathipathi(bride_rashi, groom_rashi) ==
    LET bride_lord == RashiLords[bride_rashi]
        groom_lord == RashiLords[groom_rashi]
        g_in_b == groom_lord \in RasiFriends(bride_lord)
        b_in_g == bride_lord \in RasiFriends(groom_lord)
    IN  IF bride_lord = groom_lord
        THEN Porutham("Rasiyathipathi", "pass", 20, FALSE)
        ELSE IF g_in_b /\ b_in_g
        THEN Porutham("Rasiyathipathi", "pass", 20, FALSE)
        ELSE IF g_in_b \/ b_in_g
        THEN Porutham("Rasiyathipathi", "partial", 10, FALSE)
        ELSE Porutham("Rasiyathipathi", "fail", 0, FALSE)

\* vasya_compat.get(pair, default) of _check_vasya, in 1/20.
VasyaCompat(a, b, default) ==
    IF a = b THEN 20
    ELSE IF a = "Dwipad" /\ b = "Chatushpad" THEN 10
    ELSE default

\* _check_vasya
CheckVasya(bride_rashi, groom_rashi) ==
    LET bride_type == VASHYA_TYPES[bride_rashi]
        groom_type == VASHYA_TYPES[groom_rashi]
        first == VasyaCompat(bride_type, groom_type, 0)
        score == IF first = 0 THEN VasyaCompat(groom_type, bride_type, 5)
                 ELSE first
    IN  Porutham("Vasya", IF score >= 10 THEN "pass" ELSE "fail", score, FALSE)

\* _check_rajju
CheckRajju(bride_nak, groom_nak) ==
    IF NAKSHATRA_RAJJU[bride_nak] = NAKSHATRA_RAJJU[groom_nak]
    THEN Porutham("Rajju", "fail", 0, TRUE)
    ELSE Porutham("Rajju", "pass", 20, TRUE)

\* _check_vedha
CheckVedha(bride_nak, groom_nak) ==
    LET is_vedha == <<bride_nak, groom_nak>> \in VEDHA_PAIRS
                    \/ <<groom_nak, bride_nak>> \in VEDHA_PAIRS
    IN  IF is_vedha THEN Porutham("Vedha", "fail", 0, TRUE)
        ELSE Porutham("Vedha", "pass", 20, TRUE)

\* A slip that records only the Rajju failure as a hard blocker.
BlockersRajjuOnly(rajju, vedha) ==
    IF rajju.result = "fail"
    THEN <<"Rajju Porutham failed - potential for widowhood">>
    ELSE <<>>

\* calculate_south_indian_match: the blocker list built from the two
\* essential factors.
Blockers(rajju, vedha) ==
    (IF rajju.result = "fail"
     THEN <<"Rajju Porutham failed - potential for widowhood">>
     ELSE <<>>)
    \o (IF vedha.result = "fail"
        THEN <<"Vedha Porutham failed - mutual affliction">>
        ELSE <<>>)

\* calculate_south_indian_match: the recommendation ladder.
SouthRecommendation(has_blockers, percentage) ==
    IF has_blockers THEN "Not Recommended - Essential poruthams failed"
    ELSE IF percentage >= 70 THEN "Highly Compatible - Excellent match"
    ELSE IF percentage >= 50
    THEN "Compatible - Good match with minor differences"
    ELSE "Low Compatibility - Significant differences exist"

\* calculate_south_indian_match
CalculateSouthIndianMatch(bride_nakshatra, bride_rashi, groom_nakshatra, groom_rashi) ==
    LET rajju == CheckRajju(bride_nakshatra, groom_nakshatra)
        vedha == CheckVedha(bride_nakshatra, groom_nakshatra)
        poruthams ==
            << CheckDinam(bride_nakshatra, groom_nakshatra),
               CheckGanam(bride_nakshatra, groom_nakshatra),
               CheckMahendra(bride_nakshatra, groom_nakshatra),
               CheckStreeDeergham(bride_nakshatra, groom_nakshatra),
               CheckYoni(bride_nakshatra, groom_nakshatra),
               CheckRashiPorutham(bride_rashi, groom_rashi),
               CheckRasiyathipathi(bride_rashi, groom_rashi),
               CheckVasya(bride_rashi, groom_rashi),
               rajju, vedha >>
        blockers == Blockers(rajju, vedha)
        passed == Cardinality({i \in 1..Len(poruthams) :
                                  poruthams[i].result = "pass"})
        total == Len(poruthams)
        \* (passed / total) * 100 is exact for total = 10
        percentage == (passed * 100) \div total
        has_blockers == Len(blockers) > 0
    IN  [poruthams |-> poruthams,
         total_matched |-> passed,
         total_checked |-> total,
         percentage |-> percentage,
         overall_recommendation |-> SouthRecommendation(has_blockers, percentage),
         has_hard_blockers |-> has_blockers,
         blocker_details |-> blockers]

\* An AshtakootaResult; scored_points in half points.
Koota(name, max_points, scored_points) ==
    [name |-> name, max_points |-> max_points, scored_points |-> scored_points]

\* _check_varna_koota
CheckVarnaKoota(bride_rashi, groom_rashi) ==
    Koota("Varna", 1,
          IF RASHI_VARNA[groom_rashi] >= RASHI_VARNA[bride_rashi] THEN 2 ELSE 0)

\* _check_vashya_koota
CheckVashyaKoota(bride_rashi, groom_rashi) ==
    LET bride_type == VASHYA_TYPES[bride_rashi]
        groom_type == VASHYA_TYPES[groom_rashi]
    IN  Koota("Vashya", 2,
              IF bride_type = groom_type THEN 4
              ELSE IF (bride_type = "Dwipad" /\ groom_type = "Chatushpad")
                      \/ (bride_type = "Chatushpad" /\ groom_type = "Dwipad")
              THEN 2
              ELSE IF "Keeta" \in {bride_type, groom_type} THEN 0
              ELSE 1)

\* _check_tara_koota
CheckTaraKoota(bride_nak, groom_nak) ==
    LET count1 == ((bride_nak - groom_nak) % 27) + 1
        count2 == ((groom_nak - bride_nak) % 27) + 1
        tara1 == ((count1 - 1) % 9) + 1
        tara2 == ((count2 - 1) % 9) + 1
        inauspicious == {3, 5, 7}
    IN  Koota("Tara", 3,
              IF tara1 \notin inauspicious /\ tara2 \notin inauspicious THEN 6
              ELSE IF tara1 \in inauspicious /\ tara2 \in inauspicious THEN 0
              ELSE 3)

\* _check_yoni_koota
CheckYoniKoota(bride_nak, groom_nak) ==
    LET bride_animal == NAKSHATRA_YONI_ANIMAL[bride_nak]
        groom_animal == NAKSHATRA_YONI_ANIMAL[groom_nak]
        bride_gender == NAKSHATRA_YONI_GENDER[bride_nak]
        groom_gender == NAKSHATRA_YONI_GENDER[groom_nak]
    IN  Koota("Yoni", 4,
              IF <<bride_animal, groom_animal>> \in YONI_ENEMIES
                 \/ <<groom_animal, bride_animal>> \in YONI_ENEMIES
              THEN 0
              ELSE IF bride_animal = groom_animal
              THEN (IF bride_gender # groom_gender THEN 8 ELSE 6)
              ELSE 4)

\* friendship.get(pair, 0) of _check_graha_maitri_koota, in whole points.
Friendship(a, b) ==
    CASE <<a, b>> \in { <<"Sun", "Moon">>, <<"Sun", "Mars">>,
                        <<"Sun", "Jupiter">>, <<"Moon", "Sun">>,
                        <<"Mars", "Sun">>, <<"Mars", "Moon">>,
                        <<"Mars", "Jupiter">>, <<"Mercury", "Venus">>,
                        <<"Jupiter", "Sun">>, <<"Jupiter", "Moon">>,
                        <<"Jupiter", "Mars">>, <<"Venus", "Mercury">>,
                        <<"Venus", "Saturn">>, <<"Saturn", "Venus">> } -> 5
      [] <<a, b>> \in { <<"Moon", "Mercury">>, <<"Mercury", "Sun">>,
                        <<"Saturn", "Mercury">> } -> 4
      [] OTHER -> 0

\* _check_graha_maitri_koota
CheckGrahaMaitriKoota(bride_rashi, groom_rashi) ==
    LET bride_lord == RashiLords[bride_rashi]
        groom_lord == RashiLords[groom_rashi]
        points == IF bride_lord = groom_lord THEN 5
                  ELSE Max2(Max2(Friendship(bride_lord, groom_lord),
                                 Friendship(groom_lord, bride_lord)), 0)
    IN  Koota("Graha Maitri", 5, 2 * points)

\* gana_matrix of _check_gana_koota, in whole points.
GanaMatrix ==
    << <<6, 5, 1>>, <<3, 6, 0>>, <<1, 0, 6>> >>

\* _check_gana_koota
CheckGanaKoota(bride_nak, groom_nak) ==
    Koota("Gana", 6,
          2 * GanaMatrix[NAKSHATRA_GANA[bride_nak]][NAKSHATRA_GANA[groom_nak]])

\* _check_bhakoot_koota
CheckBhakootKoota(bride_rashi, groom_rashi) ==
    LET count == ((groom_rashi - bride_rashi) % 12) + 1
        reverse_count == ((bride_rashi - groom_rashi) % 12) + 1
        inauspicious_pairs == { <<2, 12>>, <<12, 2>>, <<5, 9>>, <<9, 5>>,
                                <<6, 8>>, <<8, 6>> }
    IN  Koota("Bhakoot", 7,
              IF <<count, reverse_count>> \in inauspicious_pairs
                 \/ count \in {6, 8}
              THEN 0 ELSE 14)

\* A slip that inverts the Nadi comparison: the same nadi scores full points.
CheckNadiKootaInverted(bride_nak, groom_nak) ==
    Koota("Nadi", 8,
          IF NAKSHATRA_NADI[bride_nak] = NAKSHATRA_NADI[groom_nak]
          THEN 16 ELSE 0)

\* _check_nadi_koota
CheckNadiKoota(bride_nak, groom_nak) ==
    Koota("Nadi", 8,
          IF NAKSHATRA_NADI[bride_nak] = NAKSHATRA_NADI[groom_nak]
          THEN 0 ELSE 16)

\* A slip that cancels the Nadi dosha for every same-sign pair, without
\* asking for different mansions.
NadiExceptionSameSignOnly(apply_exceptions, nadi_dosha, bride_nakshatra, bride_rashi, groom_nakshatra, groom_rashi) ==
    /\ apply_exceptions
    /\ nadi_dosha
    /\ bride_rashi = groom_rashi

\* calculate_north_indian_match: the Nadi-dosha exception test.
NadiExceptionApplies(apply_exceptions, nadi_dosha, bride_nakshatra, bride_rashi, groom_nakshatra, groom_rashi) ==
    /\ apply_exceptions
    /\ nadi_dosha
    /\ bride_rashi = groom_rashi
    /\ bride_nakshatra # groom_nakshatra

\* A slip that restores the factor to 4.0 but credits the full 8.0 to the
\* total.
RestoredTotalFullCredit(kootas, total_points) ==
    total_points + 16 * Cardinality({i \in 1..Len(kootas) :
                                        kootas[i].name = "Nadi"})

\* calculate_north_indian_match: total_points += 4.0 for each koota named
\* "Nadi" (half points).
RestoredTotal(kootas, total_points) ==
    total_points + 8 * Cardinality({i \in 1..Len(kootas) :
                                       kootas[i].name = "Nadi"})

\* A slip that restores the Nadi factor to its full 8 points.
RestoredKootasInFull(kootas) ==
    [i \in 1..Len(kootas) |->
        IF kootas[i].name = "Nadi"
        THEN [kootas[i] EXCEPT !.scored_points = 16]
        ELSE kootas[i]]

\* calculate_north_indian_match: k.scored_points = 4.0 for the Nadi koota.
RestoredKootas(kootas) ==
    [i \in 1..Len(kootas) |->
        IF kootas[i].name = "Nadi"
        THEN [kootas[i] EXCEPT !.scored_points = 8]
        ELSE kootas[i]]

\* a slip in the ladder: strict comparisons, so that exactly 75% is only
\* "good" and exactly 50% only "below average"
NorthLadderStrict(percentage) ==
    IF percentage > 5400 THEN "Excellent Match - Highly recommended"
    ELSE IF percentage > 4320
    THEN "Good Match - Compatible with minor adjustments"
    ELSE IF percentage > 3600
    THEN "Average Match - Some challenges expected"
    ELSE IF percentage > 2592
    THEN "Below Average - Significant compatibility issues"
    ELSE "Not Recommended - Major incompatibilities"

\* calculate_north_indian_match: the percentage ladder; percentage is the
\* numerator over 72 (75% = 5400 / 72).
NorthLadder(percentage) ==
    IF percentage >= 5400 THEN "Excellent Match - Highly recommended"
    ELSE IF percentage >= 4320
    THEN "Good Match - Compatible with minor adjustments"
    ELSE IF percentage >= 3600
    THEN "Average Match - Some challenges expected"
    ELSE IF percentage >= 2592
    THEN "Below Average - Significant compatibility issues"
    ELSE "Not Recommended - Major incompatibilities"

\* calculate_north_indian_match
CalculateNorthIndianMatch(bride_nakshatra, bride_rashi, groom_nakshatra, groom_rashi, apply_exceptions) ==
    LET bhakoot == CheckBhakootKoota(bride_rashi, groom_rashi)
        nadi == CheckNadiKoota(bride_nakshatra, groom_nakshatra)
        kootas ==
            << CheckVarnaKoota(bride_rashi, groom_rashi),
               CheckVashyaKoota(bride_rashi, groom_rashi),
               CheckTaraKoota(bride_nakshatra, groom_nakshatra),
               CheckYoniKoota(bride_nakshatra, groom_nakshatra),
               CheckGrahaMaitriKoota(bride_rashi, groom_rashi),
               CheckGanaKoota(bride_nakshatra, groom_nakshatra),
               bhakoot, nadi >>
        total_points == SumSeq([i \in 1..Len(kootas) |-> kootas[i].scored_points])
        \* computed before the exception is applied, and never again
        percentage == total_points * 100
        nadi_dosha0 == nadi.scored_points = 0
        bhakoot_dosha == bhakoot.scored_points = 0
        exception == NadiExceptionApplies(apply_exceptions, nadi_dosha0,
                                          bride_nakshatra, bride_rashi,
                                          groom_nakshatra, groom_rashi)
        nadi_dosha == nadi_dosha0 /\ ~exception
    IN  [kootas |-> IF exception THEN RestoredKootas(kootas) ELSE kootas,
         total_points |-> IF exception THEN RestoredTotal(kootas, total_points)
                          ELSE total_points,
         max_points |-> 36,
         percentage |-> percentage,
         overall_recommendation |->
            IF nadi_dosha /\ bhakoot_dosha
            THEN "Caution Advised - Both Nadi and Bhakoot doshas present"
            ELSE NorthLadder(percentage),
         nadi_dosha |-> nadi_dosha,
         bhakoot_dosha |-> bhakoot_dosha,
         exceptions_applied |->
            IF exception
            THEN <<"Nadi dosha cancelled: Same rashi, different nakshatra">>
            ELSE <<>>]

(***************************************************************************)
(* The compatibility engine as a state machine: a caller invokes one of    *)
(* the two stateless scoring functions and then takes the result.          *)
(***************************************************************************)
MatchIdle == [op |-> "idle"]

\* MatchmakingService.calculate_south_indian_match, called by a client
SouthMatch ==
    /\ match.op = "idle"
    /\ \E bn \in Nakshatras, br \in Rashis, gn \in Nakshatras, gr \in Rashis :
          match' = [op |-> "south",
                    bride_nakshatra |-> bn, bride_rashi |-> br,
                    groom_nakshatra |-> gn, groom_rashi |-> gr,
                    apply_exceptions |-> FALSE,
                    result |-> CalculateSouthIndianMatch(bn, br, gn, gr)]
    /\ UNCHANGED <<searchVars, svcVars>>

\* MatchmakingService.calculate_north_indian_match, called by a client
NorthMatch ==
    /\ match.op = "idle"
    /\ \E bn \in Nakshatras, br \in Rashis, gn \in Nakshatras, gr \in Rashis,
          ex \in BOOLEAN :
          match' = [op |-> "north",
                    bride_nakshatra |-> bn, bride_rashi |-> br,
                    groom_nakshatra |-> gn, groom_rashi |-> gr,
                    apply_exceptions |-> ex,
                    result |-> CalculateNorthIndianMatch(bn, br, gn, gr, ex)]
    /\ UNCHANGED <<searchVars, svcVars>>

\* the caller has consumed the result
MatchReturn ==
    /\ match.op # "idle"
    /\ match' = MatchIdle
    /\ UNCHANGED <<searchVars, svcVars>>

(***************************************************************************)
(* Calendar service: panchang.py, with the positions of ephemeris.py       *)
(*                                                                         *)
(* An instant is a number of eighths of a second since 00:00 UTC of day 0, *)
(* a Monday (datetime.weekday() = 0).  A datetime a caller passes is its   *)
(* clock reading, an instant, and its tzinfo: UTC for an aware datetime,   *)
(* NoValue for a naive one.  A day's sky is what the Swiss Ephemeris       *)
(* reports for that date and place:                                        *)
(*   raises           swe.calc_ut raises for the date                      *)
(*   sunrise, sunset  the results of the rise and set searches, as seconds *)
(*                    after 00:00 of the date's day, or SearchFailed when  *)
(*                    swe.rise_trans raises                                *)
(*   sun, moon        the tropical longitudes at the reference time        *)
(***************************************************************************)
SearchFailed == -1
Second == 8
Minute == 60 * Second
Hour == 3600 * Second
Day == 24 * Hour
UTC == "UTC"

\* an exception leaving a call, and whether a call's outcome is one
Raise(exception) == [raised |-> exception]
Raised(outcome) == "raised" \in DOMAIN outcome
FullCircle == 21600
NakshatraSpan == 800
TithiSpan == 720
RashiSpan == 1800

Midnight(d) == d * Day
DayOf(t) == t \div Day

\* datetime.weekday() of a date and the conversion used throughout the code
Weekday(date) == DayOf(date) % 7
VedicWeekday(date) == (Weekday(date) + 1) % 7

\* AYANAMSA_OPTIONS of config.py: scheme name -> swisseph mode code
AYANAMSA_OPTIONS ==
    [lahiri |-> 1, raman |-> 3, krishnamurti |-> 5, yukteshwar |-> 7,
     true_chitrapaksha |-> 27]

\* The offset swisseph subtracts from a tropical longitude under each mode
\* code, in minutes of arc (rounded values for the present epoch).
AyanamsaOffset(mode) ==
    CASE mode = 0 -> 1503
      [] mode = 1 -> 1451
      [] mode = 3 -> 1364
      [] mode = 5 -> 1445
      [] mode = 7 -> 1374
      [] mode = 27 -> 1449

\* EphemerisService.get_planet_position: swe.calc_ut with FLG_SIDEREAL uses
\* whatever sidereal mode is set in the process at the time of the call.
GetPlanetPosition(tropical, mode) ==
    LET longitude == (tropical - AyanamsaOffset(mode)) % FullCircle
    IN  [longitude |-> longitude,
         rashi_index |-> (longitude \div RashiSpan) + 1]

TITHI_NAMES ==
    <<"Pratipada", "Dwitiya", "Tritiya", "Chaturthi", "Panchami",
      "Shashthi", "Saptami", "Ashtami", "Navami", "Dashami",
      "Ekadashi", "Dwadashi", "Trayodashi", "Chaturdashi", "Purnima",
      "Pratipada", "Dwitiya", "Tritiya", "Chaturthi", "Panchami",
      "Shashthi", "Saptami", "Ashtami", "Navami", "Dashami",
      "Ekadashi", "Dwadashi", "Trayodashi", "Chaturdashi", "Amavasya">>

\* the names of NAKSHATRAS in config.py, by number
NAKSHATRA_NAMES ==
    <<"Ashwini", "Bharani", "Krittika", "Rohini", "Mrigashira", "Ardra",
      "Punarvasu", "Pushya", "Ashlesha", "Magha", "Purva Phalguni",
      "Uttara Phalguni", "Hasta", "Chitra", "Swati", "Vishakha",
      "Anuradha", "Jyeshtha", "Mula", "Purva Ashadha", "Uttara Ashadha",
      "Shravana", "Dhanishta", "Shatabhisha", "Purva Bhadrapada",
      "Uttara Bhadrapada", "Revati">>

YOGA_DATA ==
    <<<<"Vishkambha", "Inauspicious">>, <<"Priti", "Auspicious">>,
      <<"Ayushman", "Auspicious">>, <<"Saubhagya", "Auspicious">>,
      <<"Shobhana", "Auspicious">>, <<"Atiganda", "Inauspicious">>,
      <<"Sukarman", "Auspicious">>, <<"Dhriti", "Auspicious">>,
      <<"Shula", "Inauspicious">>, <<"Ganda", "Inauspicious">>,
      <<"Vriddhi", "Auspicious">>, <<"Dhruva", "Auspicious">>,
      <<"Vyaghata", "Inauspicious">>, <<"Harshana", "Auspicious">>,
      <<"Vajra", "Inauspicious">>, <<"Siddhi", "Auspicious">>,
      <<"Vyatipata", "Inauspicious">>, <<"Variyan", "Auspicious">>,
      <<"Parigha", "Inauspicious">>, <<"Shiva", "Auspicious">>,
      <<"Siddha", "Auspicious">>, <<"Sadhya", "Auspicious">>,
      <<"Shubha", "Auspicious">>, <<"Shukla", "Auspicious">>,
      <<"Brahma", "Auspicious">>, <<"Indra", "Auspicious">>,
      <<"Vaidhriti", "Inauspicious">>>>

KARANA_NAMES ==
    <<"Bava", "Balava", "Kaulava", "Taitila", "Gara", "Vanija", "Vishti",
      "Shakuni", "Chatushpada", "Naga", "Kimstughna">>

VAARA_DATA ==
    <<"Ravivara", "Somavara", "Mangalavara", "Budhavara", "Guruvara",
      "Shukravara", "Shanivara">>

MASA_NAMES ==
    <<"Chaitra", "Vaishakha", "Jyeshtha", "Ashadha", "Shravana",
      "Bhadrapada", "Ashwin", "Kartik", "Margashirsha", "Pausha", "Magha",
      "Phalguna">>

RAHU_KALAM_ORDER == <<8, 2, 7, 5, 6, 4, 3>>
YAMAGANDAM_ORDER == <<5, 4, 3, 2, 1, 7, 6>>
GULIKA_ORDER == <<7, 6, 5, 4, 3, 2, 1>>

\* PanchangService._calculate_sun_timing for the datetime (date, tzinfo).
\* The searches start from 00:00 and 12:00 of the date's day and their
\* results come back as aware datetimes (jd_to_datetime); a failed search
\* falls back to date.replace(hour=6, minute=0), respectively hour=18,
\* which keeps the date's seconds and its tzinfo.  With a naive date and
\* exactly one failed search, sunset - sunrise subtracts a naive and an
\* aware datetime and raises TypeError.
CalculateSunTiming(date, tzinfo, sky) ==
    LET sunrise == IF sky.sunrise = SearchFailed
                   THEN Midnight(DayOf(date)) + 6 * Hour + (date % Minute)
                   ELSE Midnight(DayOf(date)) + sky.sunrise * Second
        sunset == IF sky.sunset = SearchFailed
                  THEN Midnight(DayOf(date)) + 18 * Hour + (date % Minute)
                  ELSE Midnight(DayOf(date)) + sky.sunset * Second
    IN  IF tzinfo = NoValue
           /\ (sky.sunrise = SearchFailed) # (sky.sunset = SearchFailed)
        THEN Raise("TypeError")
        ELSE [sunrise |-> sunrise, sunset |-> sunset,
              noon |-> sunrise + (sunset - sunrise) \div 2,
              day_duration |-> sunset - sunrise]

\* The differences and sums of _calculate_tithi and _calculate_yoga are
\* doubles too.  For longitudes of whole minutes of arc, s / 60.0 for the
\* Sun and m / 60.0 for the Moon, the pairs <<s, m>> among the longitudes
\* the elements are computed for (ElementSuns and ElementMoons) at which
\* int(diff / 12) is one less than the exact quotient, diff % 12 falling
\* just short of 12:
TithiRoundsDown ==
    {<<800, 1520>>, <<800, 4400>>, <<800, 15920>>, <<21599, 7919>>,
     <<21599, 8639>>, <<21599, 9359>>, <<21599, 10079>>, <<21599, 10799>>,
     <<21599, 11519>>, <<21599, 12239>>, <<21599, 12959>>, <<21599, 13679>>,
     <<21599, 14399>>, <<21599, 15119>>}

\* The pairs at which the Moon is exactly half a tithi on and
\* percent_elapsed comes out just under 50:
TithiHalfRoundsDown ==
    {<<800, 1160>>, <<800, 4040>>, <<800, 15560>>, <<21599, 8279>>,
     <<21599, 8999>>, <<21599, 9719>>, <<21599, 10439>>, <<21599, 11159>>,
     <<21599, 11879>>, <<21599, 12599>>, <<21599, 13319>>, <<21599, 14039>>,
     <<21599, 14759>>}

\* The pairs at which int(total / (360 / 27)) is one less than the exact
\* quotient:
YogaRoundsDown ==
    {<<0, 5600>>, <<0, 8800>>, <<0, 11200>>, <<0, 17600>>, <<0, 20000>>,
     <<800, 4800>>, <<800, 5600>>, <<800, 16800>>, <<800, 17600>>,
     <<800, 19200>>, <<800, 20000>>}

\* PanchangService._calculate_tithi (percent_elapsed is kept as the minutes
\* of arc elapsed within the tithi; 50 percent is half a TithiSpan)
CalculateTithi(sun_longitude, moon_longitude) ==
    LET diff == (moon_longitude - sun_longitude) % FullCircle
        short == <<sun_longitude, moon_longitude>> \in TithiRoundsDown
        tithi_number == IF short THEN diff \div TithiSpan ELSE (diff \div TithiSpan) + 1
    IN  [number |-> tithi_number,
         name |-> TITHI_NAMES[tithi_number],
         paksha |-> IF tithi_number <= 15 THEN "Shukla" ELSE "Krishna",
         elapsed |-> IF short THEN TithiSpan - 1
                     ELSE IF <<sun_longitude, moon_longitude>> \in TithiHalfRoundsDown
                          THEN (TithiSpan \div 2) - 1
                     ELSE diff % TithiSpan]

\* Longitudes are doubles in the code.  A longitude of a whole number of
\* minutes of arc, a / 60.0, lies on a quarter boundary when a is a multiple
\* of 200, and there the double quotients of get_planet_position and
\* _calculate_nakshatra can fall just short of the whole number.
\* The multiples k of a mansion (a = 800 * k, from -360 to 720 degrees) at
\* which int(longitude / (360 / 27)) is one less than the exact quotient:
NakshatraRoundsDown ==
    {-26, -23, -20, -19, -16, -13, -8, -5, -2, 7, 11, 14, 22, 25, 28, 31,
     34, 37, 41, 44, 47, 50, 53}

\* The multiples k of a quarter (a = 200 * k) at which
\* int(nakshatra_degree / (360 / 27 / 4)) is the quarter before the exact
\* one (the fourth quarter instead of the first):
PadaRoundsDown ==
    {-107, -104, -102, -101, -99, -98, -96, -95, -93, -92, -90, -89, -87,
     -86, -84, -83, -81, -80, -78, -77, -76, -75, -73, -72, -70, -69, -67,
     -66, -64, -63, -61, -60, -58, -57, -55, -54, -52, -51, -49, -48, -46,
     -45, -43, -42, -40, -39, -38, -36, -35, -33, -32, -30, -29, -27, -26,
     -24, -23, -21, -20, -18, -17, -15, -14, -12, -11, -9, -8, -6, -5, -3,
     -2, 6, 7, 9, 11, 12, 14, 15, 17, 18, 21, 22, 24, 25, 27, 28, 30, 31,
     33, 34, 36, 37, 38, 39, 41, 42, 44, 45, 47, 48, 50, 51, 53, 54, 56,
     57, 59, 60, 62, 63, 65, 66, 68, 69, 70, 71, 72, 73, 74, 75, 76, 78,
     79, 81, 82, 84, 85, 87, 88, 90, 91, 93, 94, 96, 97, 99, 100, 102, 103,
     105, 106, 109, 112, 114, 115, 117, 118, 120, 121, 123, 124, 126, 127,
     129, 130, 132, 133, 135, 136, 138, 139, 141, 142, 144, 145, 147, 148,
     150, 151, 153, 155, 156, 158, 159, 161, 162, 164, 165, 167, 168, 170,
     171, 173, 174, 176, 177, 179, 180, 182, 183, 185, 186, 188, 189, 191,
     192, 194, 195, 197, 198, 200, 201, 203, 204, 206, 207, 209, 210, 212,
     213, 215}

\* nakshatra_index = int(longitude / (360 / 27)) + 1 for the longitude that
\* came from `minutes` of arc
NakshatraIndex(minutes, longitude) ==
    (longitude \div NakshatraSpan) + 1
    - (IF minutes % NakshatraSpan = 0
          /\ (minutes \div NakshatraSpan) \in NakshatraRoundsDown
       THEN 1 ELSE 0)

\* nakshatra_pada = int(nakshatra_degree / (360 / 27 / 4)) + 1
NakshatraPada(minutes, longitude) ==
    LET exact == ((longitude % NakshatraSpan) \div (NakshatraSpan \div 4)) + 1
    IN  IF minutes % (NakshatraSpan \div 4) = 0
           /\ (minutes \div (NakshatraSpan \div 4)) \in PadaRoundsDown
        THEN (IF exact = 1 THEN 4 ELSE exact - 1)
        ELSE exact

\* PanchangService._calculate_nakshatra
CalculateNakshatra(moon_longitude) ==
    LET nakshatra_index ==
            NakshatraIndex(moon_longitude, moon_longitude) - 1
    IN  [number |-> nakshatra_index + 1,
         name |-> NAKSHATRA_NAMES[nakshatra_index + 1],
         pada |-> NakshatraPada(moon_longitude, moon_longitude)]

\* PanchangService._calculate_yoga
CalculateYoga(sun_longitude, moon_longitude) ==
    LET total == (sun_longitude + moon_longitude) % FullCircle
        yoga_index == IF <<sun_longitude, moon_longitude>> \in YogaRoundsDown
                      THEN (total \div NakshatraSpan) - 1
                      ELSE total \div NakshatraSpan
    IN  [number |-> yoga_index + 1,
         name |-> YOGA_DATA[yoga_index + 1][1],
         nature |-> YOGA_DATA[yoga_index + 1][2]]

\* A slip that starts the fixed karanas one half-day early.
CalculateKaranaFixedFrom57(tithi_number, tithi_elapsed) ==
    LET karana_number ==
            (tithi_number - 1) * 2
              + (IF 2 * tithi_elapsed < TithiSpan THEN 1 ELSE 2)
    IN  [number |-> karana_number,
         name |-> IF karana_number <= 1 THEN KARANA_NAMES[11]
                  ELSE IF karana_number >= 57
                       THEN KARANA_NAMES[8 + (karana_number - 57)]
                  ELSE KARANA_NAMES[((karana_number - 2) % 7) + 1],
         nature |-> IF karana_number <= 1 \/ karana_number >= 57
                    THEN "Fixed" ELSE "Movable"]

\* PanchangService._calculate_karana
CalculateKarana(tithi_number, tithi_elapsed) ==
    LET karana_number ==
            (tithi_number - 1) * 2
              + (IF 2 * tithi_elapsed < TithiSpan THEN 1 ELSE 2)
    IN  [number |-> karana_number,
         name |-> IF karana_number <= 1 THEN KARANA_NAMES[11]
                  ELSE IF karana_number >= 58
                       THEN KARANA_NAMES[8 + (karana_number - 58)]
                  ELSE KARANA_NAMES[((karana_number - 2) % 7) + 1],
         nature |-> IF karana_number <= 1 \/ karana_number >= 58
                    THEN "Fixed" ELSE "Movable"]

\* PanchangService._get_lunar_month
GetLunarMonth(moon_rashi) == MASA_NAMES[((moon_rashi - 1) % 12) + 1]

\* PanchangService._calculate_inauspicious_period
CalculateInauspiciousPeriod(sun_timing, weekday, name, order) ==
    LET segment_duration == sun_timing.day_duration \div 8
        segment == order[weekday + 1]
        start == sun_timing.sunrise + segment_duration * (segment - 1)
    IN  [name |-> name, start |-> start, end |-> start + segment_duration,
         duration |-> segment_duration]

\* PanchangService.calculate_panchang for the datetime (date, tzinfo) whose
\* sky is `sky`, computed while the process's sidereal mode is `mode` by a
\* service whose self.ayanamsa is `ayanamsa`.  What _calculate_sun_timing
\* or swe.calc_ut raises leaves the call.  The approximate end times of
\* tithi, nakshatra and yoga and the moon timings are left out.
CalculatePanchang(date, tzinfo, sky, mode, ayanamsa) ==
    LET sun_timing == CalculateSunTiming(date, tzinfo, sky)
        sun_pos == GetPlanetPosition(sky.sun, mode)
        moon_pos == GetPlanetPosition(sky.moon, mode)
        tithi == CalculateTithi(sun_pos.longitude, moon_pos.longitude)
        vedic_weekday == VedicWeekday(date)
    IN  IF Raised(sun_timing) THEN sun_timing
        ELSE IF sky.raises THEN Raise("swisseph.Error")
        ELSE
        [date |-> date,
         tithi |-> tithi,
         nakshatra |-> CalculateNakshatra(moon_pos.longitude),
         yoga |-> CalculateYoga(sun_pos.longitude, moon_pos.longitude),
         karana |-> CalculateKarana(tithi.number, tithi.elapsed),
         sun_timing |-> sun_timing,
         vaara |-> VAARA_DATA[vedic_weekday + 1],
         rahu_kalam |-> CalculateInauspiciousPeriod(
                            sun_timing, vedic_weekday, "Rahu Kalam",
                            RAHU_KALAM_ORDER),
         yamagandam |-> CalculateInauspiciousPeriod(
                            sun_timing, vedic_weekday, "Yamagandam",
                            YAMAGANDAM_ORDER),
         gulika_kalam |-> CalculateInauspiciousPeriod(
                            sun_timing, vedic_weekday, "Gulika Kalam",
                            GULIKA_ORDER),
         masa |-> GetLunarMonth(moon_pos.rashi_index),
         paksha |-> tithi.paksha,
         ayanamsa_used |-> ayanamsa]

(***************************************************************************)
(* Service instances, cached accessors and the process-wide sidereal mode  *)
(* (ephemeris.py, panchang.py, muhurat.py).                                *)
(*                                                                         *)
(* A world is the part of the process state the services share:           *)
(*   sidMode            the mode last given to swe.set_sid_mode            *)
(*   ephObjs            EphemerisService instances, id -> self.ayanamsa    *)
(*   ephCache           the one entry of get_ephemeris_service's lru_cache *)
(*   panchangSingleton  panchang.py's _panchang_service                    *)
(*   muhuratSingleton   muhurat.py's _muhurat_service                      *)
(* A PanchangService is the pair of its fields (ephemeris id, ayanamsa); a *)
(* MuhuratService is its panchang_service.                                 *)
(***************************************************************************)
\* module globals that are still None, and the empty lru_cache
NoPanchangService == [ephemeris |-> 0, ayanamsa |-> NoValue]
NoMuhuratService == [panchang_service |-> NoPanchangService]
EmptyCache == [key |-> NoValue, obj |-> 0]

World ==
    [sidMode |-> sidMode, ephObjs |-> ephObjs, ephCache |-> ephCache,
     panchangSingleton |-> panchangSingleton,
     muhuratSingleton |-> muhuratSingleton]

\* the scheme _set_ayanamsa ends up with: unknown names fall back to lahiri
EffectiveAyanamsa(ayanamsa) ==
    IF ayanamsa \in DOMAIN AYANAMSA_OPTIONS THEN ayanamsa ELSE "lahiri"

\* EphemerisService._set_ayanamsa on instance `self`
SetAyanamsa(w, self, ayanamsa) ==
    [w EXCEPT !.sidMode = AYANAMSA_OPTIONS[EffectiveAyanamsa(ayanamsa)],
              !.ephObjs = [w.ephObjs EXCEPT
                              ![self] = EffectiveAyanamsa(ayanamsa)]]

\* EphemerisService.__init__: the new instance is the last of the heap
NewEphemerisService(w, ayanamsa) ==
    SetAyanamsa([w EXCEPT !.ephObjs = Append(w.ephObjs, ayanamsa)],
                Len(w.ephObjs) + 1, ayanamsa)

\* The lru_cache key of a call of get_ephemeris_service: a call without
\* argument and a call with "lahiri" are different keys.
NoArg == "<no argument>"
KeyAyanamsa(key) == IF key = NoArg THEN "lahiri" ELSE key

\* get_ephemeris_service under lru_cache(maxsize=1): the world after the
\* call and the instance returned
GetEphemerisService(w, key) ==
    IF w.ephCache # EmptyCache /\ w.ephCache.key = key
    THEN [world |-> w, obj |-> w.ephCache.obj]
    ELSE LET made == NewEphemerisService(w, KeyAyanamsa(key))
         IN  [world |-> [made EXCEPT
                            !.ephCache = [key |-> key,
                                          obj |-> Len(made.ephObjs)]],
              obj |-> Len(made.ephObjs)]

\* PanchangService.__init__
NewPanchangService(w, ayanamsa) ==
    LET got == GetEphemerisService(w, ayanamsa)
    IN  [world |-> got.world,
         service |-> [ephemeris |-> got.obj, ayanamsa |-> ayanamsa]]

\* get_panchang_service
GetPanchangService(w, ayanamsa) ==
    IF w.panchangSingleton = NoPanchangService
       \/ w.panchangSingleton.ayanamsa # ayanamsa
    THEN LET made == NewPanchangService(w, ayanamsa)
         IN  [world |-> [made.world EXCEPT
                            !.panchangSingleton = made.service],
              service |-> made.service]
    ELSE [world |-> w, service |-> w.panchangSingleton]

\* MuhuratService.__init__
NewMuhuratService(w, ayanamsa) ==
    LET got == GetPanchangService(w, ayanamsa)
    IN  [world |-> got.world,
         service |-> [panchang_service |-> got.service]]

\* get_muhurat_service: created once, whatever scheme later calls name
GetMuhuratService(w, ayanamsa) ==
    IF w.muhuratSingleton = NoMuhuratService
    THEN LET made == NewMuhuratService(w, ayanamsa)
         IN  [world |-> [made.world EXCEPT
                            !.muhuratSingleton = made.service],
              service |-> made.service]
    ELSE [world |-> w, service |-> w.muhuratSingleton]

\* the shared state after an operation left the world `w`
WorldBecomes(w) ==
    /\ sidMode' = w.sidMode
    /\ ephObjs' = w.ephObjs
    /\ ephCache' = w.ephCache
    /\ panchangSingleton' = w.panchangSingleton
    /\ muhuratSingleton' = w.muhuratSingleton

(***************************************************************************)
(* Auspicious-window search: muhurat.py                                    *)
(***************************************************************************)
\* the members of EventType
EventType ==
    {"marriage", "naming_ceremony", "griha_pravesh", "business_opening",
     "travel", "surgery", "vehicle_purchase", "property_purchase",
     "engagement", "education_start", "jewellery_purchase",
     "general_auspicious"}

\* the keys of EVENT_RULES
RuledEvents ==
    {"marriage", "griha_pravesh", "business_opening", "travel",
     "vehicle_purchase", "naming_ceremony", "surgery", "education_start",
     "general_auspicious"}

\* EVENT_RULES[event_type]; avoid_lunar_months is rules.get(..., [])
EVENT_RULES(event_type) ==
    CASE event_type = "marriage" ->
           [good_tithis |-> {2, 3, 5, 7, 10, 11, 12, 13},
            good_nakshatras |-> {3, 4, 7, 8, 11, 12, 13, 17, 20, 21, 22, 25,
                                 27},
            good_weekdays |-> {1, 3, 4, 5},
            avoid_yogas |-> {"Vishkambha", "Atiganda", "Shula", "Ganda",
                             "Vyaghata", "Vajra", "Vyatipata", "Parigha",
                             "Vaidhriti"},
            avoid_lunar_months |-> {}]
      [] event_type = "griha_pravesh" ->
           [good_tithis |-> {2, 3, 5, 7, 10, 11, 12, 13},
            good_nakshatras |-> {3, 4, 6, 7, 8, 11, 12, 13, 20, 21, 22, 25,
                                 26, 27},
            good_weekdays |-> {1, 3, 4, 5},
            avoid_yogas |-> {"Vishkambha", "Atiganda", "Shula", "Ganda",
                             "Vyaghata", "Vajra", "Vyatipata"},
            avoid_lunar_months |-> {"Ashwin", "Pausha"}]
      [] event_type = "business_opening" ->
           [good_tithis |-> {2, 3, 5, 6, 7, 10, 11, 12, 13},
            good_nakshatras |-> {3, 4, 7, 8, 11, 12, 13, 16, 17, 20, 21, 22,
                                 25, 27},
            good_weekdays |-> {1, 3, 4, 5},
            avoid_yogas |-> {"Vishkambha", "Atiganda", "Shula", "Ganda"},
            avoid_lunar_months |-> {}]
      [] event_type = "travel" ->
           [good_tithis |-> {2, 3, 5, 6, 7, 10, 11, 12, 13},
            good_nakshatras |-> {1, 2, 3, 4, 5, 6, 7, 8, 9, 11, 12, 13, 17,
                                 20, 21, 22, 25, 26, 27},
            good_weekdays |-> {0, 1, 3, 4, 5},
            avoid_yogas |-> {"Vishkambha", "Shula", "Vyaghata", "Vajra"},
            avoid_lunar_months |-> {}]
      [] event_type = "vehicle_purchase" ->
           [good_tithis |-> {2, 3, 5, 6, 7, 10, 11, 12, 13},
            good_nakshatras |-> {1, 3, 4, 5, 7, 8, 11, 12, 13, 17, 20, 21,
                                 22},
            good_weekdays |-> {1, 3, 4, 5},
            avoid_yogas |-> {"Vishkambha", "Atiganda", "Shula", "Vyaghata"},
            avoid_lunar_months |-> {}]
      [] event_type = "naming_ceremony" ->
           [good_tithis |-> {2, 3, 5, 6, 7, 10, 11, 12, 13},
            good_nakshatras |-> {1, 2, 3, 4, 5, 7, 8, 11, 12, 13, 17, 20,
                                 21, 22, 25, 26, 27},
            good_weekdays |-> {1, 3, 4, 5},
            avoid_yogas |-> {"Vishkambha", "Atiganda", "Shula"},
            avoid_lunar_months |-> {}]
      [] event_type = "surgery" ->
           [good_tithis |-> {1, 2, 3, 6, 7, 10, 11, 12},
            good_nakshatras |-> {1, 4, 5, 7, 8, 11, 12, 13, 17, 20, 21, 22},
            good_weekdays |-> {1, 3, 4, 5},
            avoid_yogas |-> {"Vishkambha", "Atiganda", "Shula", "Ganda",
                             "Vyaghata", "Vajra"},
            avoid_lunar_months |-> {}]
      [] event_type = "education_start" ->
           [good_tithis |-> {2, 3, 5, 6, 7, 10, 11, 12, 13},
            good_nakshatras |-> {1, 4, 5, 7, 8, 9, 11, 12, 13, 14, 17, 20,
                                 21, 22, 25, 27},
            good_weekdays |-> {1, 3, 4, 5},
            avoid_yogas |-> {"Vishkambha", "Shula", "Ganda"},
            avoid_lunar_months |-> {}]
      [] event_type = "general_auspicious" ->
           [good_tithis |-> {2, 3, 5, 6, 7, 10, 11, 12, 13},
            good_nakshatras |-> {1, 2, 3, 4, 5, 6, 7, 8, 11, 12, 13, 17, 20,
                                 21, 22, 25, 26, 27},
            good_weekdays |-> {0, 1, 3, 4, 5},
            avoid_yogas |-> {"Vishkambha", "Atiganda", "Shula", "Ganda",
                             "Vyaghata"},
            avoid_lunar_months |-> {}]

\* EVENT_RULES.get(event_type, EVENT_RULES[EventType.GENERAL_AUSPICIOUS])
RulesFor(event_type) ==
    IF event_type \in RuledEvents THEN EVENT_RULES(event_type)
    ELSE EVENT_RULES("general_auspicious")

\* Scores are counted in 1/14400 of a point: two points per hour of window
\* is one unit per eighth of a second.
Point == 14400
HalfHour == 1800 * Second

\* MuhuratService._find_clear_windows; a blocked period is <<start, end, name>>
RECURSIVE ClearBefore(_, _, _)
ClearBefore(current_start, day_end, blocked_periods) ==
    IF blocked_periods = <<>>
    THEN IF current_start < day_end THEN <<<<current_start, day_end>>>>
         ELSE <<>>
    ELSE LET block == Head(blocked_periods)
             gap == IF current_start < block[1]
                    THEN <<<<current_start, block[1]>>>> ELSE <<>>
         IN  gap \o ClearBefore(Max2(current_start, block[2]), day_end,
                                Tail(blocked_periods))

FindClearWindows(day_start, day_end, blocked_periods) ==
    IF blocked_periods = <<>> THEN <<<<day_start, day_end>>>>
    ELSE ClearBefore(day_start, day_end, blocked_periods)

\* list.sort(key=lambda x: x[0]): stable, ascending by start
RECURSIVE InsertByStart(_, _)
InsertByStart(sorted, block) ==
    IF sorted = <<>> THEN <<block>>
    ELSE IF Head(sorted)[1] <= block[1]
         THEN <<Head(sorted)>> \o InsertByStart(Tail(sorted), block)
    ELSE <<block>> \o sorted

RECURSIVE SortByStart(_)
SortByStart(blocks) ==
    IF blocks = <<>> THEN <<>>
    ELSE InsertByStart(SortByStart(SubSeq(blocks, 1, Len(blocks) - 1)),
                       blocks[Len(blocks)])

\* a slip in _evaluate_day: Gulika Kalam is not added to the blocked
\* periods
BlockedPeriodsWithoutGulika(panchang, avoid_rahu_kalam, avoid_yamagandam) ==
    SortByStart(
        (IF avoid_rahu_kalam
         THEN <<<<panchang.rahu_kalam.start, panchang.rahu_kalam.end,
                  "Rahu Kalam">>>>
         ELSE <<>>)
        \o (IF avoid_yamagandam
            THEN <<<<panchang.yamagandam.start, panchang.yamagandam.end,
                     "Yamagandam">>>>
            ELSE <<>>))

\* the blocked periods of _evaluate_day, sorted: Rahu Kalam and Yamagandam
\* when asked for, Gulika Kalam always
BlockedPeriods(panchang, avoid_rahu_kalam, avoid_yamagandam) ==
    SortByStart(
        (IF avoid_rahu_kalam
         THEN <<<<panchang.rahu_kalam.start, panchang.rahu_kalam.end,
                  "Rahu Kalam">>>>
         ELSE <<>>)
        \o (IF avoid_yamagandam
            THEN <<<<panchang.yamagandam.start, panchang.yamagandam.end,
                     "Yamagandam">>>>
            ELSE <<>>)
        \o <<<<panchang.gulika_kalam.start, panchang.gulika_kalam.end,
               "Gulika Kalam">>>>)

\* A slip that takes off as much for a miss as a match adds.
DayScoreSymmetric(panchang, rules) ==
    50
    + (IF panchang.tithi.number \in rules.good_tithis THEN 10 ELSE -10)
    + (IF panchang.nakshatra.number \in rules.good_nakshatras
       THEN 15 ELSE -15)
    + (IF VedicWeekday(panchang.date) \in rules.good_weekdays
       THEN 10 ELSE -10)
    + (IF panchang.yoga.name \in rules.avoid_yogas THEN -15
       ELSE IF panchang.yoga.nature = "Auspicious" THEN 10 ELSE 0)
    + (IF panchang.masa \in rules.avoid_lunar_months THEN -10 ELSE 0)

\* the day's score in _evaluate_day, in whole points
DayScore(panchang, rules) ==
    50
    + (IF panchang.tithi.number \in rules.good_tithis THEN 10 ELSE -10)
    + (IF panchang.nakshatra.number \in rules.good_nakshatras
       THEN 15 ELSE -10)
    + (IF VedicWeekday(panchang.date) \in rules.good_weekdays
       THEN 10 ELSE -5)
    + (IF panchang.yoga.name \in rules.avoid_yogas THEN -15
       ELSE IF panchang.yoga.nature = "Auspicious" THEN 10 ELSE 0)
    + (IF panchang.masa \in rules.avoid_lunar_months THEN -10 ELSE 0)

\* the quality ladder of _evaluate_day, on the unclamped window score
QualityOf(window_score) ==
    IF window_score >= 80 * Point THEN "excellent"
    ELSE IF window_score >= 60 * Point THEN "good"
    ELSE IF window_score >= 40 * Point THEN "moderate"
    ELSE "poor"

\* a slip in _evaluate_day: the window keeps its score unclamped
MakeWindowUnclamped(panchang, event_type, score, clear) ==
    LET window_score == score * Point + (clear[2] - clear[1])
    IN  [start_time |-> clear[1],
         end_time |-> clear[2],
         quality |-> QualityOf(window_score),
         score |-> window_score,
         event_type |-> event_type,
         tithi |-> panchang.tithi.name,
         nakshatra |-> panchang.nakshatra.name,
         yoga |-> panchang.yoga.name,
         karana |-> panchang.karana.name,
         weekday |-> panchang.vaara]

\* the MuhuratWindow built for one clear window
MakeWindow(panchang, event_type, score, clear) ==
    LET window_score == score * Point + (clear[2] - clear[1])
    IN  [start_time |-> clear[1],
         end_time |-> clear[2],
         quality |-> QualityOf(window_score),
         score |-> Min2(100 * Point, Max2(0, window_score)),
         event_type |-> event_type,
         tithi |-> panchang.tithi.name,
         nakshatra |-> panchang.nakshatra.name,
         yoga |-> panchang.yoga.name,
         karana |-> panchang.karana.name,
         weekday |-> panchang.vaara]

\* the loop over clear windows: shorter than 30 minutes or poor are skipped
RECURSIVE WindowsOf(_, _, _, _)
WindowsOf(panchang, event_type, score, clear_windows) ==
    IF clear_windows = <<>> THEN <<>>
    ELSE LET clear == Head(clear_windows)
             window == MakeWindow(panchang, event_type, score, clear)
             rest == WindowsOf(panchang, event_type, score,
                               Tail(clear_windows))
         IN  IF clear[2] - clear[1] < HalfHour THEN rest
             ELSE IF window.quality = "poor" THEN rest
             ELSE <<window>> \o rest

\* MuhuratService._evaluate_day
EvaluateDay(panchang, event_type, rules, avoid_rahu_kalam, avoid_yamagandam, exclude_nakshatras, exclude_tithis) ==
    IF panchang.tithi.number \in exclude_tithis THEN <<>>
    ELSE IF panchang.nakshatra.number \in exclude_nakshatras THEN <<>>
    ELSE WindowsOf(panchang, event_type, DayScore(panchang, rules),
                   FindClearWindows(
                       panchang.sun_timing.sunrise,
                       panchang.sun_timing.sunset,
                       BlockedPeriods(panchang, avoid_rahu_kalam,
                                      avoid_yamagandam)))

\* list.sort(key=lambda w: w.score, reverse=True): the sort is stable, so a
\* window goes behind every window of higher score and behind the windows
\* of equal score that were found before it
SortByScore(windows) ==
    LET ahead == [i \in 1..Len(windows) |->
                     Cardinality({j \in 1..Len(windows) :
                                     \/ windows[j].score > windows[i].score
                                     \/ (windows[j].score = windows[i].score /\ j < i)})]
    IN  [k \in 1..Len(windows) |->
            windows[CHOOSE i \in 1..Len(windows) : ahead[i] = k - 1]]

\* windows[:n] for n >= 0
Take(windows, n) == SubSeq(windows, 1, Min2(n, Len(windows)))

\* A calendar is the sequence of skies of consecutive days, repeated; the
\* sky of a date is looked up by the date's day number.
SkyOf(calendar, date) == calendar[(DayOf(date) % Len(calendar)) + 1]

\* The windows of one date in find_muhurat: a date whose calculate_panchang
\* raises is skipped.  q holds the arguments of the call (tzinfo is that
\* of start_date and of end_date), the calendar in effect and the panchang
\* service (its scheme label and the sidereal mode of the process).
DayWindows(q, date) ==
    LET panchang == CalculatePanchang(date, q.tzinfo, SkyOf(q.calendar, date),
                                      q.mode, q.ayanamsa)
    IN  IF Raised(panchang) THEN <<>>
        ELSE EvaluateDay(panchang, q.event_type, RulesFor(q.event_type),
                         q.avoid_rahu_kalam, q.avoid_yamagandam,
                         q.exclude_nakshatras, q.exclude_tithis)

\* the iterations first..last of the while loop of find_muhurat, the range
\* taken one half after the other: iteration k looks at the date
\* current_date + k days, and appends its windows only while fewer than
\* max_results * 3 have been found
RECURSIVE ScanSteps(_, _, _, _, _)
ScanSteps(q, current_date, first, last, windows) ==
    IF first > last \/ Len(windows) >= q.max_results * 3 THEN windows
    ELSE IF first = last
    THEN windows \o DayWindows(q, current_date + first * Day)
    ELSE ScanSteps(q, current_date, ((first + last) \div 2) + 1, last,
                   ScanSteps(q, current_date, first, (first + last) \div 2,
                             windows))

\* the while loop of find_muhurat: one iteration for every date from
\* current_date on, a day apart, that is not after end_date
ScanDays(q, current_date, windows) ==
    ScanSteps(q, current_date, 0, (q.end_date - current_date) \div Day,
              windows)

\* MuhuratService.find_muhurat; best_window is a sequence of at most one
\* window (empty for None)
FindMuhurat(q) ==
    LET found == ScanDays(q, Midnight(DayOf(q.start_date)), <<>>)
        windows == Take(SortByScore(found), q.max_results)
    IN  [event_type |-> q.event_type,
         search_start |-> q.start_date,
         search_end |-> q.end_date,
         windows |-> windows,
         total_found |-> Len(windows),
         best_window |-> Take(windows, 1),
         filters_applied |->
             [avoid_rahu_kalam |-> q.avoid_rahu_kalam,
              avoid_yamagandam |-> q.avoid_yamagandam,
              custom_nakshatra_exclusions |-> q.exclude_nakshatras # {},
              custom_tithi_exclusions |-> q.exclude_tithis # {}]]

(***************************************************************************)
(* The search endpoint: routers/muhurat.py                                 *)
(***************************************************************************)
MuhuratQuality == <<"excellent", "good", "moderate", "poor">>

RECURSIVE IndexOf(_, _)
IndexOf(seq, x) == IF Head(seq) = x THEN 1 ELSE 1 + IndexOf(Tail(seq), x)

\* timedelta.days of end - start: the floor of the difference in days
DeltaDays(start_date, end_date) == (end_date - start_date) \div Day

\* the windows kept by the min_quality filter of search_muhurat
RECURSIVE FilterByQuality(_, _)
FilterByQuality(windows, min_quality) ==
    IF windows = <<>> THEN <<>>
    ELSE IF IndexOf(MuhuratQuality, Head(windows).quality)
              <= IndexOf(MuhuratQuality, min_quality)
         THEN <<Head(windows)>> \o FilterByQuality(Tail(windows), min_quality)
    ELSE FilterByQuality(Tail(windows), min_quality)

HttpError(detail) == [status |-> 400, detail |-> detail]

\* the default of find_muhurat's max_results, which search_muhurat relies on
DefaultMaxResults == 20
MaxRangeDays == 90

\* the validation of search_muhurat: the detail of the HTTP 400 it raises,
\* or the empty string when the request passes; min_quality is tested for
\* truth, so that None and the empty string are both "not given"
ValidationError(request) ==
    IF request.event_type \notin EventType THEN "Invalid event_type"
    ELSE IF DeltaDays(request.start_date, request.end_date) > MaxRangeDays
    THEN "Search range cannot exceed 90 days"
    ELSE IF DeltaDays(request.start_date, request.end_date) < 0
    THEN "end_date must be after start_date"
    ELSE IF request.min_quality \notin {NoValue, ""}
            /\ request.min_quality \notin
                   {MuhuratQuality[i] : i \in 1..Len(MuhuratQuality)}
    THEN "Invalid min_quality"
    ELSE ""

\* the response search_muhurat builds from the service's result
SearchResponse(request, result) ==
    LET filtered == IF request.min_quality \in {NoValue, ""}
                    THEN result.windows
                    ELSE FilterByQuality(result.windows, request.min_quality)
        windows == Take(filtered, request.max_results)
    IN  [status |-> 200,
         event_type |-> request.event_type,
         search_start |-> result.search_start,
         search_end |-> result.search_end,
         total_found |-> Len(windows),
         windows |-> windows,
         best_window |->
             IF result.best_window # <<>>
                /\ \E i \in 1..Len(windows) :
                       windows[i] = result.best_window[1]
             THEN result.best_window ELSE <<>>]

\* the body of search_muhurat in the world `w`, the skies being those of
\* `calendar`: the world it leaves and its response.  find_muhurat is
\* called without filters and without max_results.
SearchMuhurat(w, request, calendar) ==
    IF ValidationError(request) # ""
    THEN [world |-> w, response |-> HttpError(ValidationError(request))]
    ELSE LET got == GetMuhuratService(w, "lahiri")
             q == [calendar |-> calendar,
                   mode |-> got.world.sidMode,
                   ayanamsa |-> got.service.panchang_service.ayanamsa,
                   event_type |-> request.event_type,
                   start_date |-> request.start_date,
                   end_date |-> request.end_date,
                   tzinfo |-> request.tzinfo,
                   avoid_rahu_kalam |-> TRUE,
                   avoid_yamagandam |-> TRUE,
                   exclude_nakshatras |-> {},
                   exclude_tithis |-> {},
                   max_results |-> DefaultMaxResults]
         IN  [world |-> got.world,
              response |-> SearchResponse(request, FindMuhurat(q))]

\* the names bound at the top level of core/config.py
ConfigNames ==
    {"lru_cache", "List", "Optional", "BaseSettings", "SettingsConfigDict",
     "Field", "Settings", "get_settings", "AYANAMSA_OPTIONS", "NAKSHATRAS",
     "RASHIS", "GRAHAS", "VIMSHOTTARI_PERIODS", "VIMSHOTTARI_SEQUENCE"}

\* importing routers/muhurat.py, which defines search_muhurat: its line 20
\* imports NAKSHATRA_DATA from src.core.config, and a name that module does
\* not bind makes the import statement raise
ImportMuhuratRouter ==
    IF "NAKSHATRA_DATA" \in ConfigNames
    THEN [module |-> "src.routers.muhurat"]
    ELSE Raise("ImportError")

SearchIdle == [op |-> "idle"]

(***************************************************************************)
(* The window search as a state machine.  A client calls find_muhurat on   *)
(* the shared service, which get_muhurat_service() creates (and, through   *)
(* it, the calendar and ephemeris services) on first use, or posts a       *)
(* request to the search endpoint, whose module has to be imported first.  *)
(***************************************************************************)
MaxStartDay == 6
MaxSpan == 1
MaxResults == 2
MaxEph == 2

Sky(raises, sunrise, sunset, sun, moon) ==
    [raises |-> raises, sunrise |-> sunrise, sunset |-> sunset,
     sun |-> sun, moon |-> moon]

\* The skies the search is exercised on: both searches failing (the 06:00
\* and 18:00 fallbacks), an ordinary day, a day under four hours, a day
\* whose sunset is found before its sunrise, a day whose sunset falls on the
\* next UTC date, a date for which the ephemeris raises, and a day whose
\* sunrise search alone fails.
SkyDays ==
    <<Sky(FALSE, SearchFailed, SearchFailed, 137, 925),
      Sky(FALSE, 20833, 66668, 137, 1587),
      Sky(FALSE, 20833, 66668, 3202, 12510),
      Sky(FALSE, 37800, 49800, 137, 2249),
      Sky(FALSE, 84300, 46200, 137, 925),
      Sky(FALSE, 73800, 115200, 8719, 17806),
      Sky(TRUE, SearchFailed, SearchFailed, 0, 0),
      Sky(FALSE, SearchFailed, 66668, 137, 1587)>>

\* the tzinfo of the datetimes callers pass: aware (UTC) or naive
TimeZones == {UTC, NoValue}

\* the calendars: every sky alone and every pair of different skies,
\* repeated; which sky of a pair comes first depends on the start day
Calendars ==
    {<<SkyDays[i]>> : i \in 1..Len(SkyDays)}
    \cup {<<SkyDays[p[1]], SkyDays[p[2]]>> :
              p \in {r \in (1..Len(SkyDays)) \X (1..Len(SkyDays)) : r[1] < r[2]}}

SearchEvents == {"marriage", "engagement"}

\* the filter arguments of find_muhurat that are exercised:
\* <<avoid_rahu_kalam, avoid_yamagandam, exclude_nakshatras, exclude_tithis>>
FilterChoices ==
    {<<TRUE, TRUE, {}, {}>>, <<FALSE, FALSE, {}, {}>>,
     <<TRUE, FALSE, {}, {3}>>, <<FALSE, TRUE, {27}, {}>>}

\* the spans in days of the direct calls (both dates are midnights): an
\* inverted range, a single day, a few days, and a span beyond the
\* endpoint's limit
SearchSpans == (-1..MaxSpan) \cup {MaxRangeDays + 1}

\* a client calls get_muhurat_service().find_muhurat(...); find_muhurat has
\* no raise statement and catches what calculate_panchang raises, so the
\* call always returns

FindMuhuratCall ==
    /\ search.op = "idle"
    /\ LET got == GetMuhuratService(World, "lahiri")
       IN  /\ Len(got.world.ephObjs) <= MaxEph
           /\ WorldBecomes(got.world)
           /\ \E event_type \in SearchEvents, start \in 0..MaxStartDay,
                 span \in SearchSpans, max_results \in 1..MaxResults,
                 f \in FilterChoices, calendar \in Calendars,
                 tzinfo \in TimeZones :
                 LET q == [calendar |-> calendar,
                           mode |-> got.world.sidMode,
                           ayanamsa |-> got.service.panchang_service.ayanamsa,
                           event_type |-> event_type,
                           start_date |-> Midnight(start),
                           end_date |-> Midnight(start + span),
                           tzinfo |-> tzinfo,
                           avoid_rahu_kalam |-> f[1],
                           avoid_yamagandam |-> f[2],
                           exclude_nakshatras |-> f[3],
                           exclude_tithis |-> f[4],
                           max_results |-> max_results]
                 IN  search' = [op |-> "find_muhurat", q |-> q,
                                outcome |-> "returned",
                                result |-> FindMuhurat(q)]
    /\ UNCHANGED <<matchVars, panchangObjs, lastCalc, panchangLog>>

RequestEvents == {"marriage", "griha_pravesh", "birthday"}
RequestStarts == {Midnight(1), Midnight(1) + 12 * Hour}
RequestEnds ==
    {Midnight(0) + 18 * Hour, Midnight(1), Midnight(MaxSpan + 1),
     Midnight(MaxRangeDays + 1), Midnight(MaxRangeDays + 2)}
RequestQualities == {NoValue, "", "good", "best"}

\* a client posts to search_muhurat.  The endpoint is served by the module
\* routers/muhurat.py, which main.py imports through src.routers; when the
\* import raises there is no endpoint and no request is answered.
SearchMuhuratCall ==
    /\ search.op = "idle"
    /\ \E event_type \in RequestEvents, start_date \in RequestStarts,
          end_date \in RequestEnds, tzinfo \in TimeZones,
          min_quality \in RequestQualities,
          max_results \in 1..MaxResults, calendar \in Calendars :
          LET request == [event_type |-> event_type,
                          start_date |-> start_date,
                          end_date |-> end_date,
                          tzinfo |-> tzinfo,
                          min_quality |-> min_quality,
                          max_results |-> max_results]
          IN  IF Raised(ImportMuhuratRouter)
              THEN /\ search' = [op |-> "search_muhurat",
                                 request |-> request,
                                 outcome |-> "raised",
                                 error |-> ImportMuhuratRouter.raised]
                   /\ UNCHANGED <<sidMode, ephObjs, ephCache,
                                  panchangSingleton, muhuratSingleton>>
              ELSE LET done == SearchMuhurat(World, request, calendar)
                   IN  /\ Len(done.world.ephObjs) <= MaxEph
                       /\ WorldBecomes(done.world)
                       /\ search' = [op |-> "search_muhurat",
                                     request |-> request,
                                     calendar |-> calendar,
                                     outcome |-> "returned",
                                     mode |-> done.world.sidMode,
                                     response |-> done.response]
    /\ UNCHANGED <<matchVars, panchangObjs, lastCalc, panchangLog>>

\* the client has consumed the result
SearchReturn ==
    /\ search.op # "idle"
    /\ search' = SearchIdle
    /\ UNCHANGED <<matchVars, svcVars>>

(***************************************************************************)
(* Clients of the services: constructions, cached accessors and the two    *)
(* position-computing operations, one request at a time (the handlers are  *)
(* coroutines that never yield inside a calculation).                      *)
(***************************************************************************)
MaxPanchang == 1
MaxCalls == 2
MaxCalcDay == 1

\* the scheme names clients pass: two known ones and one that is not a key
\* of AYANAMSA_OPTIONS
Schemes == {"lahiri", "raman", "fagan_bradley"}

\* the sky over the one location the calculations are made for, and the
\* birth instant of the charts
CalcCalendar == <<SkyDays[2], SkyDays[3]>>
BirthDate == Midnight(0)

\* what a position-computing operation saw: the scheme it was asked for,
\* the sidereal mode in effect, the scheme it reports, and the Sun's
\* position it computed from the tropical one
Calc(op, requested, mode, ayanamsa, tropical) ==
    [op |-> op, requested |-> requested, mode |-> mode,
     ayanamsa |-> ayanamsa, tropical |-> tropical,
     sun |-> GetPlanetPosition(tropical, mode)]

\* the PanchangService instances a client can call: those it holds
\* (panchangObjs: constructed, or returned by an accessor and kept) and
\* those the module globals refer to
PanchangServices ==
    (panchangObjs \cup {panchangSingleton, muhuratSingleton.panchang_service})
        \ {NoPanchangService}

\* EphemerisService(ayanamsa)
ConstructEphemerisService ==
    /\ Len(ephObjs) < MaxEph
    /\ \E ayanamsa \in Schemes :
          WorldBecomes(NewEphemerisService(World, ayanamsa))
    /\ UNCHANGED <<matchVars, searchVars, panchangObjs, lastCalc,
                   panchangLog>>

\* get_ephemeris_service() or get_ephemeris_service(ayanamsa); the caller
\* is left with the instance returned for the scheme it named, the scheme
\* that instance holds and the sidereal mode of the process at the return
GetEphemerisServiceCall ==
    /\ \E key \in {NoArg} \cup Schemes :
          LET got == GetEphemerisService(World, key)
          IN  /\ Len(got.world.ephObjs) <= MaxEph
              /\ WorldBecomes(got.world)
              /\ lastCalc' = [op |-> "get_ephemeris_service", requested |-> KeyAyanamsa(key), obj |-> got.obj,
                               ayanamsa |-> got.world.ephObjs[got.obj], mode |-> got.world.sidMode]
    /\ UNCHANGED <<matchVars, searchVars, panchangObjs, panchangLog>>

\* EphemerisService.calculate_birth_chart on the instance `self`, with or
\* without the ayanamsa argument
CalculateBirthChartCall ==
    /\ \E self \in 1..Len(ephObjs), ayanamsa \in {NoValue} \cup Schemes :
          LET w == IF ayanamsa # NoValue /\ ayanamsa # ephObjs[self]
                   THEN SetAyanamsa(World, self, ayanamsa)
                   ELSE World
              requested == IF ayanamsa # NoValue THEN ayanamsa
                           ELSE ephObjs[self]
          IN  /\ WorldBecomes(w)
              /\ lastCalc' = Calc("calculate_birth_chart", requested,
                                  w.sidMode, w.ephObjs[self],
                                  SkyOf(CalcCalendar, BirthDate).sun)
    /\ UNCHANGED <<matchVars, searchVars, panchangObjs, panchangLog>>

\* what a client that received `service` may hold afterwards: the
\* references it held, with or without the new one
HeldWith(service) ==
    {held \in {panchangObjs, panchangObjs \cup {service}} :
        Cardinality(held) <= MaxPanchang}

\* PanchangService(ayanamsa)
ConstructPanchangService ==
    /\ \E ayanamsa \in Schemes :
          LET made == NewPanchangService(World, ayanamsa)
          IN  /\ Len(made.world.ephObjs) <= MaxEph
              /\ Cardinality(panchangObjs \cup {made.service}) <= MaxPanchang
              /\ WorldBecomes(made.world)
              /\ panchangObjs' = panchangObjs \cup {made.service}
    /\ UNCHANGED <<matchVars, searchVars, lastCalc, panchangLog>>

\* get_panchang_service(ayanamsa); the caller may keep the instance it
\* got, which stays usable after a later call has replaced the global
GetPanchangServiceCall ==
    /\ \E ayanamsa \in Schemes :
          LET got == GetPanchangService(World, ayanamsa)
          IN  /\ Len(got.world.ephObjs) <= MaxEph
              /\ WorldBecomes(got.world)
              /\ panchangObjs' \in HeldWith(got.service)
              /\ lastCalc' = [op |-> "get_panchang_service", requested |-> ayanamsa, service |-> got.service,
                               ayanamsa |-> got.world.ephObjs[got.service.ephemeris], mode |-> got.world.sidMode]
    /\ UNCHANGED <<matchVars, searchVars, panchangLog>>

\* get_muhurat_service(ayanamsa); the caller may keep the instance it got
\* and with it the PanchangService that instance refers to
GetMuhuratServiceCall ==
    /\ \E ayanamsa \in Schemes :
          LET got == GetMuhuratService(World, ayanamsa)
          IN  /\ Len(got.world.ephObjs) <= MaxEph
              /\ WorldBecomes(got.world)
              /\ panchangObjs' \in HeldWith(got.service.panchang_service)
              /\ lastCalc' = [op |-> "get_muhurat_service", requested |-> ayanamsa, service |-> got.service,
                               ayanamsa |-> got.world.ephObjs[got.service.panchang_service.ephemeris], mode |-> got.world.sidMode]
    /\ UNCHANGED <<matchVars, searchVars, panchangLog>>

\* PanchangService.calculate_panchang on a held instance: the positions
\* come from its ephemeris under the sidereal mode of the process, the
\* label from the instance
CalculatePanchangCall ==
    /\ \E service \in PanchangServices, day \in 0..MaxCalcDay :
          LET date == Midnight(day)
              sky == SkyOf(CalcCalendar, date)
              call == [date |-> date, ayanamsa |-> service.ayanamsa,
                       result |-> CalculatePanchang(date, UTC, sky, sidMode,
                                                    service.ayanamsa)]
          IN  /\ Cardinality(panchangLog \cup {call}) <= MaxCalls
              /\ panchangLog' = panchangLog \cup {call}
              /\ lastCalc' = Calc("calculate_panchang", service.ayanamsa,
                                  sidMode, service.ayanamsa, sky.sun)
    /\ UNCHANGED <<matchVars, searchVars, sidMode, ephObjs, ephCache,
                   panchangObjs, panchangSingleton, muhuratSingleton>>

(***************************************************************************)
(* Classification of a longitude into sign, mansion and quarter, as the    *)
(* chart operations of EphemerisService do it.  A raw longitude handed     *)
(* over by the ephemeris library is a whole number of arcminutes.          *)
(***************************************************************************)
RASHI_NAMES ==
    <<"Mesha", "Vrishabha", "Mithuna", "Karka", "Simha", "Kanya", "Tula",
      "Vrishchika", "Dhanu", "Makara", "Kumbha", "Meena">>

Modulo360Inclusive(minutes) ==
    IF minutes > 0 /\ minutes % FullCircle = 0 THEN FullCircle ELSE minutes % FullCircle

\* longitude % 360: the remainder takes the sign of 360, so it lies in
\* [0, 360) for a negative longitude as well
Modulo360(minutes) == minutes % FullCircle

IndexError == [error |-> "IndexError"]

\* the fields get_planet_position derives from the raw longitude and speed
\* the library returned for one body
PlanetPosition(name, minutes, speed) ==
    LET longitude == Modulo360(minutes)
        rashi_index == (longitude \div RashiSpan) + 1
        nakshatra_index == NakshatraIndex(minutes, longitude)
        nakshatra_pada == NakshatraPada(minutes, longitude)
    IN  IF rashi_index - 1 >= Len(RASHI_NAMES) THEN IndexError
        ELSE IF nakshatra_index - 1 >= Len(NAKSHATRA_NAMES) THEN IndexError
        ELSE [error |-> "", name |-> name, longitude |-> longitude,
              speed |-> speed, is_retrograde |-> speed < 0,
              rashi_index |-> rashi_index,
              rashi_name |-> RASHI_NAMES[rashi_index],
              nakshatra_index |-> nakshatra_index,
              nakshatra_name |-> NAKSHATRA_NAMES[nakshatra_index],
              nakshatra_pada |-> nakshatra_pada]

\* calculate_ascendant: the triple (ascendant, rashi_index,
\* nakshatra_index); it looks nothing up in a table
CalculateAscendant(minutes) ==
    LET ascendant == Modulo360(minutes)
    IN  [ascendant |-> ascendant,
         rashi_index |-> (ascendant \div RashiSpan) + 1,
         nakshatra_index |-> NakshatraIndex(minutes, ascendant)]

\* where the doubles of (rahu + 180) % 360 fall one short, by mansion and
\* by quarter of Ketu's longitude, for Rahu on a whole arcminute of [0, 360)
KetuNakshatraRoundsDown == {2, 5, 7, 10, 13, 14, 19, 22, 26}

KetuPadaRoundsDown == {2, 5, 6, 8, 9, 11, 12, 14, 15, 17, 18, 20, 21, 24, 25, 27, 28, 30, 31,
     33, 34, 36, 37, 39, 40, 42, 43, 45, 46, 48, 49, 51, 52, 54, 56, 57,
     59, 60, 62, 63, 65, 66, 68, 69, 70, 71, 72, 73, 75, 76, 78, 79, 81,
     82, 84, 85, 87, 88, 90, 91, 93, 95, 96, 98, 99, 101, 102, 104, 105,
     107}

KetuLongitudeQuarterTurn(rahu_longitude) == (rahu_longitude + FullCircle \div 4) % FullCircle

\* ketu_longitude = (rahu_position.longitude + 180) % 360
KetuLongitude(rahu_longitude) == (rahu_longitude + FullCircle \div 2) % FullCircle

\* get_ketu_position(rahu_position)
GetKetuPosition(rahu_position) ==
    LET ketu_longitude == KetuLongitude(rahu_position.longitude)
        rashi_index == (ketu_longitude \div RashiSpan) + 1
        mansion == ketu_longitude \div NakshatraSpan
        quarter == ketu_longitude \div (NakshatraSpan \div 4)
        nakshatra_index ==
            mansion + 1 - (IF ketu_longitude % NakshatraSpan = 0 /\ mansion \in KetuNakshatraRoundsDown THEN 1 ELSE 0)
        exact == (quarter % 4) + 1
        nakshatra_pada ==
            IF ketu_longitude % (NakshatraSpan \div 4) = 0 /\ quarter \in KetuPadaRoundsDown
            THEN (IF exact = 1 THEN 4 ELSE exact - 1) ELSE exact
    IN  [error |-> "", name |-> "Ketu", longitude |-> ketu_longitude,
         speed |-> -rahu_position.speed, is_retrograde |-> TRUE,
         rashi_index |-> rashi_index,
         rashi_name |-> RASHI_NAMES[rashi_index],
         nakshatra_index |-> nakshatra_index,
         nakshatra_name |-> NAKSHATRA_NAMES[nakshatra_index],
         nakshatra_pada |-> nakshatra_pada]

(***************************************************************************)
(* Vimshottari dasha.  Instants and durations of the dasha operations are   *)
(* counted in ticks of three seconds from the epoch: a year of 365.25 days *)
(* and every allocation of a period to a Moon on a whole arcminute are     *)
(* whole numbers of ticks.                                                 *)
(***************************************************************************)
VIMSHOTTARI_PERIODS ==
    [Ketu |-> 7, Venus |-> 20, Sun |-> 6, Moon |-> 10, Mars |-> 7, Rahu |-> 18, Jupiter |-> 16, Saturn |-> 19, Mercury |-> 17]

VIMSHOTTARI_SEQUENCE ==
    <<"Ketu", "Venus", "Sun", "Moon", "Mars", "Rahu", "Jupiter", "Saturn", "Mercury">>

TicksPerDay == 28800
YearTicks == 10519200
CycleYears == 120

\* VIMSHOTTARI_SEQUENCE.index(lord), counted from 1
SequenceIndex(lord) == CHOOSE i \in 1..9 : VIMSHOTTARI_SEQUENCE[i] = lord

\* the lord i places after the one at start_index, around the cycle
LordAfter(start_index, i) == VIMSHOTTARI_SEQUENCE[((start_index - 1 + i) % 9) + 1]

\* timedelta.days of a non-negative difference of instants
DaysOf(delta) == delta \div TicksPerDay

\* _add_years(dt, years) for a whole number of years
AddYears(dt, years) == dt + years * YearTicks

DashaPeriodEndingEarly(planet, start_date, end_date, level) ==
    [planet |-> planet, start_date |-> start_date, end_date |-> end_date - 1, level |-> level]

\* DashaPeriod(planet, start_date, end_date, level, duration_years), where
\* duration_years is end_date - start_date in years of 365.25 days
DashaPeriod(planet, start_date, end_date, level) ==
    [planet |-> planet, start_date |-> start_date, end_date |-> end_date, level |-> level]

\* The mansions k at whose start (moon_longitude = 800 * k arcminutes) the
\* double moon_longitude % (360 / 27) is a hair under a whole mansion
\* instead of zero, so that fraction_passed is a hair under one
DashaFractionRoundsUp == {3, 6, 7, 9, 11, 12, 14, 15, 17, 18, 19, 21, 22, 24, 25}

\* first_period_years * (1 - fraction_passed) years, in ticks
RemainingOfFirst(moon_longitude, start_dasha_lord) ==
    IF moon_longitude % NakshatraSpan = 0 /\ (moon_longitude \div NakshatraSpan) \in DashaFractionRoundsUp
    THEN 0
    ELSE VIMSHOTTARI_PERIODS[start_dasha_lord] * (NakshatraSpan - (moon_longitude % NakshatraSpan)) * (YearTicks \div NakshatraSpan)

\* the loop `for i in range(1, 10)` of calculate_vimshottari_dasha from its
\* i-th round on
RECURSIVE SubsequentDashas(_, _, _, _, _, _)
SubsequentDashas(dasha_periods, start_index, i, current_date, birth_datetime, years_forward) ==
    IF i >= 10 THEN dasha_periods
    ELSE LET dasha_lord == LordAfter(start_index, i)
             end_date == AddYears(current_date, VIMSHOTTARI_PERIODS[dasha_lord])
         IN  IF DaysOf(current_date - birth_datetime) * 4 > years_forward * 1461
             THEN dasha_periods
             ELSE SubsequentDashas(Append(dasha_periods, DashaPeriod(dasha_lord, current_date, end_date, 1)),
                                   start_index, i + 1, end_date, birth_datetime, years_forward)

\* EphemerisService.calculate_vimshottari_dasha
CalculateVimshottariDasha(moon_longitude, birth_datetime, years_forward) ==
    LET nakshatra_index == NakshatraIndex(moon_longitude, moon_longitude) - 1
        start_dasha_lord == VIMSHOTTARI_SEQUENCE[(nakshatra_index % 9) + 1]
        start_index == SequenceIndex(start_dasha_lord)
        end_date == birth_datetime + RemainingOfFirst(moon_longitude, start_dasha_lord)
    IN  SubsequentDashas(<<DashaPeriod(start_dasha_lord, birth_datetime, end_date, 1)>>,
                         start_index, 1, end_date, birth_datetime, years_forward)

AntarTicksPerCent(total_days, antar_lord) ==
    total_days * VIMSHOTTARI_PERIODS[antar_lord] * (TicksPerDay \div 100)

\* timedelta(days = total_days * (VIMSHOTTARI_PERIODS[antar_lord] / 120))
AntarTicks(total_days, antar_lord) ==
    total_days * VIMSHOTTARI_PERIODS[antar_lord] * (TicksPerDay \div CycleYears)

\* the loop `for i in range(9)` of calculate_antardasha from its i-th round
RECURSIVE AntardashasFrom(_, _, _, _, _)
AntardashasFrom(antardasha_periods, maha_start_index, total_days, i, current_date) ==
    IF i >= 9 THEN antardasha_periods
    ELSE LET antar_lord == LordAfter(maha_start_index, i)
             end_date == current_date + AntarTicks(total_days, antar_lord)
         IN  AntardashasFrom(Append(antardasha_periods, DashaPeriod(antar_lord, current_date, end_date, 2)),
                             maha_start_index, total_days, i + 1, end_date)

\* EphemerisService.calculate_antardasha
CalculateAntardasha(maha_dasha) ==
    AntardashasFrom(<<>>, SequenceIndex(maha_dasha.planet),
                    DaysOf(maha_dasha.end_date - maha_dasha.start_date), 0, maha_dasha.start_date)

(***************************************************************************)
(* The chart operations applied to bounded inputs, one call at a time:     *)
(* each records in lastCalc what it was given and what it returned or      *)
(* raised, and the caller then takes the outcome.                          *)
(***************************************************************************)
NoCalc == [op |-> "none"]

\* raw longitudes, in arcminutes from -360 to 720 degrees: every quarter
\* boundary and the minute on either side of it
RawMinutes ==
    {m \in (0 - FullCircle)..(2 * FullCircle) : m % (NakshatraSpan \div 4) \in {0, 1, (NakshatraSpan \div 4) - 1}}

\* daily motions, in arcminutes per day
Speeds == {-3, 0, 59}

\* get_planet_position(jd, planet_id) when the library returns `raw`
GetPlanetPositionCall ==
    /\ lastCalc = NoCalc
    /\ \E raw \in RawMinutes, speed \in Speeds :
          lastCalc' = [op |-> "get_planet_position", raw |-> raw,
                       result |-> PlanetPosition("Chandra", raw, speed)]
    /\ UNCHANGED <<matchVars, searchVars, sidMode, ephObjs, ephCache, panchangObjs, panchangSingleton, muhuratSingleton, panchangLog>>

\* calculate_ascendant(jd, latitude, longitude) when the library returns
\* `raw` for the ascendant
CalculateAscendantCall ==
    /\ lastCalc = NoCalc
    /\ \E raw \in RawMinutes :
          lastCalc' = [op |-> "calculate_ascendant", raw |-> raw,
                       result |-> CalculateAscendant(raw)]
    /\ UNCHANGED <<matchVars, searchVars, sidMode, ephObjs, ephCache, panchangObjs, panchangSingleton, muhuratSingleton, panchangLog>>

\* PanchangService._calculate_nakshatra(moon.longitude), the longitude being
\* one get_planet_position returned
CalculateNakshatraCall ==
    /\ lastCalc = NoCalc
    /\ \E raw \in RawMinutes :
          LET moon == PlanetPosition("Chandra", raw, 0)
          IN  /\ moon.error = ""
              /\ raw = moon.longitude
              /\ lastCalc' = [op |-> "_calculate_nakshatra", raw |-> raw,
                              result |-> CalculateNakshatra(moon.longitude)]
    /\ UNCHANGED <<matchVars, searchVars, sidMode, ephObjs, ephCache, panchangObjs, panchangSingleton, muhuratSingleton, panchangLog>>

\* the bodies of a chart in the order calculate_birth_chart computes them,
\* and the raw longitudes and speeds of the first seven at BirthDate
CHART_BODIES == <<"Surya", "Chandra", "Mangal", "Budha", "Guru", "Shukra", "Shani", "Rahu">>
ChartSky == <<[minutes |-> 5130, speed |-> 59], [minutes |-> 14400, speed |-> 790], [minutes |-> 200, speed |-> 40], [minutes |-> 4801, speed |-> -30], [minutes |-> 21599, speed |-> 5], [minutes |-> 7200, speed |-> 70], [minutes |-> 18000, speed |-> -2]>>

\* the planets list of calculate_birth_chart: eight positions from
\* get_planet_position, then Ketu from the last of them
BirthChartPlanets(rahu, rahu_speed) ==
    LET main == [i \in 1..8 |->
                    IF i < 8
                    THEN PlanetPosition(CHART_BODIES[i], ChartSky[i].minutes, ChartSky[i].speed)
                    ELSE PlanetPosition(CHART_BODIES[i], rahu, rahu_speed)]
    IN  IF \E i \in 1..8 : main[i].error # "" THEN IndexError
        ELSE [error |-> "", planets |-> Append(main, GetKetuPosition(main[8]))]

\* calculate_birth_chart, as far as the planets are concerned; the library
\* returns the lunar node within [0, 360)
CalculateBirthChartPlanetsCall ==
    /\ lastCalc = NoCalc
    /\ \E rahu \in RawMinutes, rahu_speed \in Speeds :
          /\ rahu \in 0..(FullCircle - 1)
          /\ lastCalc' = [op |-> "birth_chart_planets", raw |-> rahu,
                          result |-> BirthChartPlanets(rahu, rahu_speed)]
    /\ UNCHANGED <<matchVars, searchVars, sidMode, ephObjs, ephCache, panchangObjs, panchangSingleton, muhuratSingleton, panchangLog>>

\* the Moon longitudes the dashas are computed for: the start of every
\* mansion, the minute after it, its middle and its last minute
DashaMoons == {m \in 0..(FullCircle - 1) : m % NakshatraSpan \in {0, 1, NakshatraSpan \div 2, NakshatraSpan - 1}}

\* birth instants: midnight of the epoch day, and 06:00 of the next day
DashaBirths == {0, TicksPerDay + TicksPerDay \div 4}

\* years_forward: none, a short horizon, and the default
DashaHorizons == {0, 20, CycleYears}

MaxDepth == 2

\* calculate_vimshottari_dasha(moon_longitude, birth_datetime, years_forward)
CalculateVimshottariDashaCall ==
    /\ lastCalc = NoCalc
    /\ \E moon_longitude \in DashaMoons, birth_datetime \in DashaBirths, years_forward \in DashaHorizons :
          lastCalc' = [op |-> "calculate_vimshottari_dasha", moon_longitude |-> moon_longitude,
                       birth_datetime |-> birth_datetime, years_forward |-> years_forward, depth |-> 0,
                       result |-> CalculateVimshottariDasha(moon_longitude, birth_datetime, years_forward)]
    /\ UNCHANGED <<matchVars, searchVars, sidMode, ephObjs, ephCache, panchangObjs, panchangSingleton, muhuratSingleton, panchangLog>>

\* calculate_antardasha(maha_dasha) on a period of the list last returned
CalculateAntardashaCall ==
    /\ lastCalc.op \in {"calculate_vimshottari_dasha", "calculate_antardasha"}
    /\ lastCalc.depth < MaxDepth
    /\ \E i \in 1..Len(lastCalc.result) :
          lastCalc' = [op |-> "calculate_antardasha", maha_dasha |-> lastCalc.result[i],
                       of |-> lastCalc.op, depth |-> lastCalc.depth + 1,
                       result |-> CalculateAntardasha(lastCalc.result[i])]
    /\ UNCHANGED <<matchVars, searchVars, sidMode, ephObjs, ephCache, panchangObjs, panchangSingleton, muhuratSingleton, panchangLog>>

\* the caller takes the outcome of the chart operation
ChartReturn ==
    /\ lastCalc.op \in {"get_planet_position", "calculate_ascendant", "_calculate_nakshatra", "birth_chart_planets", "calculate_vimshottari_dasha", "calculate_antardasha"}
    /\ lastCalc' = NoCalc
    /\ UNCHANGED <<matchVars, searchVars, sidMode, ephObjs, ephCache, panchangObjs, panchangSingleton, muhuratSingleton, panchangLog>>

(***************************************************************************)
(* calculate_panchang of the default service applied to bounded dates and  *)
(* skies.                                                                  *)
(***************************************************************************)
\* the dates: midnight of each day of the epoch week, Monday first, and
\* 09:30:15 of the Tuesday; each as an aware and as a naive datetime
CalendarDates ==
    {Midnight(d) : d \in 0..6}
    \cup {Midnight(1) + 9 * Hour + 30 * Minute + 15 * Second}

\* what the sunrise and the sunset search can come up with, in seconds
\* after 00:00 UTC of the date: no result, or a time after the start of
\* the search (00:00 for the rising, 12:00 for the setting)
Sunrises == {SearchFailed, 20833, 37800, 84300}
Sunsets == {SearchFailed, 46200, 49800, 66668, 115200}

\* tropical longitudes of the Sun and of the Moon at sunrise
SunLongitudes == {137, 3202, 8719}
MoonLongitudes == {925, 1587, 12510, 17806}

\* get_panchang_service().calculate_panchang(date, latitude, longitude)
\* where the sky over the location on that date is `sky`: the accessor
\* creates the default service on first use (and with it the ephemeris
\* service, which sets the sidereal mode of the process), and the
\* positions are computed under the mode the process is in
CalculatePanchangOn ==
    /\ lastCalc = NoCalc
    /\ LET got == GetPanchangService(World, "lahiri")
       IN  /\ Len(got.world.ephObjs) <= MaxEph
           /\ WorldBecomes(got.world)
           /\ \E date \in CalendarDates, tzinfo \in TimeZones, sunrise \in Sunrises, sunset \in Sunsets, sun \in SunLongitudes, moon \in MoonLongitudes :
                 LET sky == Sky(FALSE, sunrise, sunset, sun, moon)
                 IN  lastCalc' = [op |-> "calculate_panchang_on", date |-> date, tzinfo |-> tzinfo, sky |-> sky, mode |-> got.world.sidMode,
                                  result |-> CalculatePanchang(date, tzinfo, sky, got.world.sidMode, got.service.ayanamsa)]
    /\ UNCHANGED <<matchVars, searchVars, panchangObjs, panchangLog>>

\* sidereal longitudes the four elements are computed for: the Sun at the
\* start of the circle, one mansion on and one minute short of the full
\* circle; the Moon on every multiple of 40 minutes (which takes in every
\* tithi, half-tithi, mansion, quarter and yoga boundary for these Suns)
\* and one minute to either side
ElementSuns == {0, NakshatraSpan, FullCircle - 1}
ElementMoons == {m \in 0..(FullCircle - 1) : m % 40 \in {0, 1, 39}}

\* the element steps of calculate_panchang: _calculate_tithi,
\* _calculate_nakshatra, _calculate_yoga and _calculate_karana on the
\* longitudes of the Sun and the Moon at sunrise
CalculateElementsCall ==
    /\ lastCalc = NoCalc
    /\ \E sun_longitude \in ElementSuns, moon_longitude \in ElementMoons :
          LET tithi == CalculateTithi(sun_longitude, moon_longitude)
          IN  lastCalc' = [op |-> "calculate_elements", sun_longitude |-> sun_longitude, moon_longitude |-> moon_longitude,
                           tithi |-> tithi,
                           nakshatra |-> CalculateNakshatra(moon_longitude),
                           yoga |-> CalculateYoga(sun_longitude, moon_longitude),
                           karana |-> CalculateKarana(tithi.number, tithi.elapsed)]
    /\ UNCHANGED <<matchVars, searchVars, sidMode, ephObjs, ephCache, panchangObjs, panchangSingleton, muhuratSingleton, panchangLog>>

\* the events a day is evaluated for: those with rules of their own and
\* one without, which gets the general rules
EvaluatedEvents == RuledEvents \cup {"engagement"}

\* <<avoid_rahu_kalam, avoid_yamagandam>>: the defaults, and neither
AvoidChoices == {<<TRUE, TRUE>>, <<FALSE, FALSE>>}

\* MuhuratService._evaluate_day on the calendar just computed (there is
\* none when calculate_panchang raised), as find_muhurat calls it, with no
\* exclusions: the score of the day, the clear windows between the blocked
\* periods and the windows returned
EvaluateDayCall ==
    /\ lastCalc.op = "calculate_panchang_on"
    /\ ~Raised(lastCalc.result)
    /\ \E event_type \in EvaluatedEvents, avoid \in AvoidChoices :
          LET panchang == lastCalc.result
              rules == RulesFor(event_type)
          IN  lastCalc' = [op |-> "_evaluate_day", panchang |-> panchang, sky |-> lastCalc.sky,
                           event_type |-> event_type, rules |-> rules,
                           avoid_rahu_kalam |-> avoid[1], avoid_yamagandam |-> avoid[2],
                           score |-> DayScore(panchang, rules),
                           clear_windows |-> FindClearWindows(panchang.sun_timing.sunrise, panchang.sun_timing.sunset, BlockedPeriods(panchang, avoid[1], avoid[2])),
                           result |-> EvaluateDay(panchang, event_type, rules, avoid[1], avoid[2], {}, {})]
    /\ UNCHANGED <<matchVars, searchVars, sidMode, ephObjs, ephCache, panchangObjs, panchangSingleton, muhuratSingleton, panchangLog>>

\* the caller takes the calendar
CalendarReturn ==
    /\ lastCalc.op \in {"calculate_panchang_on", "calculate_elements", "_evaluate_day"}
    /\ lastCalc' = NoCalc
    /\ UNCHANGED <<matchVars, searchVars, sidMode, ephObjs, ephCache, panchangObjs, panchangSingleton, muhuratSingleton, panchangLog>>


\* The state of a freshly started process: swisseph's sidereal mode is its
\* built-in default (code 0), no service exists, the module globals are None.
SvcInit ==
    /\ sidMode = 0
    /\ ephObjs = <<>>
    /\ ephCache = EmptyCache
    /\ panchangObjs = {}
    /\ panchangSingleton = NoPanchangService
    /\ muhuratSingleton = NoMuhuratService
    /\ lastCalc = [op |-> "none"]
    /\ panchangLog = {}

Init ==
    /\ match = MatchIdle
    /\ search = SearchIdle
    /\ SvcInit

NextMatch == SouthMatch \/ NorthMatch \/ MatchReturn

SpecMatch == Init /\ [][NextMatch]_vars

NextSearch == SearchMuhuratCall \/ FindMuhuratCall \/ SearchReturn

SpecSearch == Init /\ [][NextSearch]_vars
Next ==
    \/ ConstructEphemerisService
    \/ GetEphemerisServiceCall
    \/ CalculateBirthChartCall
    \/ ConstructPanchangService
    \/ GetPanchangServiceCall
    \/ GetMuhuratServiceCall
    \/ CalculatePanchangCall

Spec == Init /\ [][Next]_vars

NextChart ==
    \/ GetPlanetPositionCall
    \/ CalculateAscendantCall
    \/ CalculateNakshatraCall
    \/ CalculateBirthChartPlanetsCall
    \/ CalculateVimshottariDashaCall
    \/ CalculateAntardashaCall
    \/ ChartReturn

SpecChart == Init /\ [][NextChart]_vars

NextCalendar == CalculatePanchangOn \/ CalculateElementsCall \/ EvaluateDayCall \/ CalendarReturn

SpecCalendar == Init /\ [][NextCalendar]_vars


(***************************************************************************)
(* Claims about the compatibility engine (checked under SpecMatch)         *)
(***************************************************************************)
IdenticalCharts ==
    /\ match.op # "idle"
    /\ match.bride_nakshatra = match.groom_nakshatra
    /\ match.bride_rashi = match.groom_rashi

OneOneCharts ==
    /\ match.op = "north"
    /\ match.bride_nakshatra = 1 /\ match.bride_rashi = 1
    /\ match.groom_nakshatra = 1 /\ match.groom_rashi = 1

\* C8 as stated: for bride (1,1) and groom (1,1) the 8-factor result has no
\* dosha flag set and total_points >= 30.
C8_NoDoshaAtLeast30 ==
    OneOneCharts =>
        /\ ~match.result.nadi_dosha
        /\ ~match.result.bhakoot_dosha
        /\ match.result.total_points >= 2 * 30

\* C8 amended: for bride (1,1) and groom (1,1) the 8-factor result reports
\* the Nadi dosha (same mansion, so the same-sign exception does not cancel
\* it), no Bhakoot dosha, no exception applied, and total_points 27.
C8_NadiDosha27 ==
    OneOneCharts =>
        /\ match.result.nadi_dosha
        /\ ~match.result.bhakoot_dosha
        /\ match.result.exceptions_applied = <<>>
        /\ match.result.total_points = 2 * 27

\* C8 witness: the identical (1,1) charts have been scored with exceptions
\* enabled.
C8_Witness ==
    /\ OneOneCharts
    /\ match.apply_exceptions
    /\ match.result.nadi_dosha

\* C9: in the 10-factor result has_hard_blockers is true, and the
\* recommendation is "Not Recommended", exactly when the two mansions share
\* a Rajju body region or form a Vedha pair, i.e. exactly when one of the
\* two essential rows failed, whatever the other eight rows are.
C9_EssentialFactorsDecide ==
    match.op = "south" =>
        LET R == match.result
            rajjuFails == NAKSHATRA_RAJJU[match.bride_nakshatra]
                            = NAKSHATRA_RAJJU[match.groom_nakshatra]
            vedhaFails ==
                \/ <<match.bride_nakshatra, match.groom_nakshatra>> \in VEDHA_PAIRS
                \/ <<match.groom_nakshatra, match.bride_nakshatra>> \in VEDHA_PAIRS
        IN  /\ R.poruthams[9].name = "Rajju" /\ R.poruthams[9].is_essential
            /\ R.poruthams[10].name = "Vedha" /\ R.poruthams[10].is_essential
            /\ (R.poruthams[9].result = "fail") = rajjuFails
            /\ (R.poruthams[10].result = "fail") = vedhaFails
            /\ R.has_hard_blockers = (rajjuFails \/ vedhaFails)
            /\ (R.overall_recommendation
                  = "Not Recommended - Essential poruthams failed")
               = R.has_hard_blockers

\* C9 witness: Vedha alone fails (Rajju and at least six other rows pass)
\* and the result is blocked.
C9_Witness ==
    /\ match.op = "south"
    /\ match.result.poruthams[9].result = "pass"
    /\ match.result.poruthams[10].result = "fail"
    /\ match.result.total_matched >= 7
    /\ match.result.has_hard_blockers

\* C10: the eight factor maxima are 1..8 in order (sum 36), every factor's
\* scored points lie between 0 and its maximum, and total_points is the sum
\* of the eight scored points and lies in [0, 36].
C10_PointsWithinMaxima ==
    match.op = "north" =>
        LET K == match.result.kootas
        IN  /\ Len(K) = 8
            /\ \A i \in 1..8 : K[i].max_points = i
            /\ SumSeq([i \in 1..8 |-> K[i].max_points]) = match.result.max_points
            /\ match.result.max_points = 36
            /\ \A i \in 1..8 :
                  /\ K[i].scored_points >= 0
                  /\ K[i].scored_points <= 2 * K[i].max_points
            /\ match.result.total_points
                  = SumSeq([i \in 1..8 |-> K[i].scored_points])
            /\ match.result.total_points >= 0
            /\ match.result.total_points <= 2 * 36

\* C10 witness: a result in which the exception restored points to the Nadi
\* factor and a factor scored a half point.
C10_Witness ==
    /\ match.op = "north"
    /\ match.result.exceptions_applied # <<>>
    /\ match.result.kootas[8].scored_points = 8
    /\ match.result.total_points > 0
(***************************************************************************)
(* Claims about the window search (checked under SpecSearch)               *)
(***************************************************************************)
\* the windows a finished call of find_muhurat handed back
ReturnedWindows ==
    IF search.op = "find_muhurat" THEN search.result.windows ELSE <<>>

\* every qualifying window of the days first..last, in day-then-interval
\* order
RECURSIVE QualifyingOn(_, _, _)
QualifyingOn(q, first, last) ==
    IF first > last THEN <<>>
    ELSE IF first = last THEN DayWindows(q, Midnight(first))
    ELSE QualifyingOn(q, first, (first + last) \div 2)
         \o QualifyingOn(q, ((first + last) \div 2) + 1, last)

\* C3: find_muhurat returns exactly the first max_results of all qualifying
\* windows of every day from start_date to end_date, ordered by score
\* descending with equal scores in discovery order.
C3_TopOfAllDays ==
    search.op = "find_muhurat" =>
        search.result.windows =
            Take(SortByScore(
                     QualifyingOn(search.q, DayOf(search.q.start_date),
                                  DayOf(search.q.end_date))),
                 search.q.max_results)

\* the dates find_muhurat may look at for a call with these dates
DatesOf(start_date, end_date) ==
    {Midnight(d) : d \in DayOf(start_date)..DayOf(end_date)}

\* two intervals share an interior instant
SharesInterior(s1, e1, s2, e2) == Max2(s1, s2) < Min2(e1, e2)

\* the window lies in the daytime of the panchang and off its three periods
ClearOn(window, panchang) ==
    /\ panchang.sun_timing.sunrise <= window.start_time
    /\ window.start_time < window.end_time
    /\ window.end_time <= panchang.sun_timing.sunset
    /\ \A period \in {panchang.rahu_kalam, panchang.yamagandam,
                      panchang.gulika_kalam} :
          ~SharesInterior(window.start_time, window.end_time,
                          period.start, period.end)

\* the window is clear on some date of the searched range
ClearOnItsDay(window, q) ==
    \E date \in DatesOf(q.start_date, q.end_date) :
        LET panchang == CalculatePanchang(date, q.tzinfo,
                                          SkyOf(q.calendar, date), q.mode,
                                          q.ayanamsa)
        IN  ~Raised(panchang) /\ ClearOn(window, panchang)

\* C4: with the default filters (avoid_rahu_kalam and avoid_yamagandam
\* true) every returned window lies within sunrise-sunset of its day and
\* shares no interior instant with that day's Rahu Kalam, Yamagandam or
\* Gulika Kalam.
C4_WindowsClearOfBlockedPeriods ==
    (search.op = "find_muhurat"
       /\ search.q.avoid_rahu_kalam /\ search.q.avoid_yamagandam) =>
        \A i \in 1..Len(search.result.windows) :
            ClearOnItsDay(search.result.windows[i], search.q)

\* C4 witness: a default-filter call returned a window that ends exactly
\* where Gulika Kalam of its day begins, and another one.
C4_Witness ==
    /\ search.op = "find_muhurat"
    /\ search.q.avoid_rahu_kalam /\ search.q.avoid_yamagandam
    /\ Len(search.result.windows) >= 2
    /\ \E i \in 1..Len(search.result.windows) :
          \E date \in DatesOf(search.q.start_date, search.q.end_date) :
              LET panchang == CalculatePanchang(
                                  date, search.q.tzinfo,
                                  SkyOf(search.q.calendar, date),
                                  search.q.mode, search.q.ayanamsa)
              IN  /\ ~Raised(panchang)
                  /\ search.result.windows[i].end_time =
                         panchang.gulika_kalam.start

\* C5: every returned window has a score in [0,100], its quality is the
\* threshold tier of that score (>= 80 excellent, >= 60 good, >= 40
\* moderate) and none is poor.
C5_ScoreWithinTier ==
    \A i \in 1..Len(ReturnedWindows) :
        LET window == ReturnedWindows[i]
        IN  /\ 0 <= window.score /\ window.score <= 100 * Point
            /\ window.quality \in {"excellent", "good", "moderate"}
            /\ window.quality = "excellent" <=> window.score >= 80 * Point
            /\ window.quality = "good" <=>
                   (60 * Point <= window.score /\ window.score < 80 * Point)
            /\ window.quality = "moderate" <=>
                   (40 * Point <= window.score /\ window.score < 60 * Point)

\* C5 witness: a returned window whose score was clamped to 100 next to a
\* returned window of a lower tier.
C5_Witness ==
    /\ \E i \in 1..Len(ReturnedWindows) :
          ReturnedWindows[i].score = 100 * Point
    /\ \E i \in 1..Len(ReturnedWindows) :
          ReturnedWindows[i].quality # "excellent"

\* the range the specification calls invalid: end before start, or a span
\* of 91 days or more
InvalidRange(start_date, end_date) ==
    end_date < start_date \/ end_date - start_date >= (MaxRangeDays + 1) * Day

\* C6: find_muhurat called with end_date earlier than start_date, or with
\* a 91-day span, fails with an invalid-range error instead of returning a
\* search result.
C6_ServiceRejectsInvalidRange ==
    (search.op = "find_muhurat"
       /\ InvalidRange(search.q.start_date, search.q.end_date)) =>
        search.outcome = "raised"

(***************************************************************************)
(* Claims about the correction scheme (checked under Spec)                 *)
(***************************************************************************)
\* C1: for any sequence of chart and calendar operations issued with
\* different correction schemes, every body position is computed under the
\* scheme of the operation that requested it.
C1_PositionsUnderRequestedScheme ==
    lastCalc.op \in {"calculate_birth_chart", "calculate_panchang"} =>
        lastCalc.sun =
            GetPlanetPosition(
                lastCalc.tropical,
                AYANAMSA_OPTIONS[EffectiveAyanamsa(lastCalc.requested)])

\* C2: two calls of calculate_panchang with identical date, location and
\* correction scheme return identical results, whatever was executed
\* between them.
C2_SameCallSameResult ==
    \A a, b \in panchangLog :
        (a.date = b.date /\ a.ayanamsa = b.ayanamsa) => a.result = b.result

(***************************************************************************)
(* Further claims about the compatibility engine (checked under SpecMatch) *)
(***************************************************************************)
\* C11: the 8-factor recommendation is the percentage ladder (>= 75%
\* excellent, >= 60% good, >= 50% average, >= 36% below average, otherwise
\* not recommended) of the result's percentage, except that it is the
\* caution tier whenever both the Nadi and the Bhakoot dosha flags are set
\* in the result, and only then.
C11_LadderUnlessBothDoshas ==
    match.op = "north" =>
        LET r == match.result
            caution ==
                "Caution Advised - Both Nadi and Bhakoot doshas present"
        IN  /\ (r.nadi_dosha /\ r.bhakoot_dosha)
                   <=> r.overall_recommendation = caution
            /\ ~(r.nadi_dosha /\ r.bhakoot_dosha) =>
                   /\ r.percentage >= 75 * 72 <=>
                          r.overall_recommendation =
                              "Excellent Match - Highly recommended"
                   /\ (60 * 72 <= r.percentage /\ r.percentage < 75 * 72) <=>
                          r.overall_recommendation =
                              "Good Match - Compatible with minor adjustments"
                   /\ (50 * 72 <= r.percentage /\ r.percentage < 60 * 72) <=>
                          r.overall_recommendation =
                              "Average Match - Some challenges expected"
                   /\ (36 * 72 <= r.percentage /\ r.percentage < 50 * 72) <=>
                          r.overall_recommendation =
                              "Below Average - Significant compatibility issues"
                   /\ r.percentage < 36 * 72 <=>
                          r.overall_recommendation =
                              "Not Recommended - Major incompatibilities"

\* C11 witness: both doshas are present in a result of at least 50%, which
\* the ladder alone would have called average.
C11_Witness ==
    /\ match.op = "north"
    /\ match.result.nadi_dosha /\ match.result.bhakoot_dosha
    /\ match.result.percentage >= 50 * 72
    /\ match.result.overall_recommendation =
           "Caution Advised - Both Nadi and Bhakoot doshas present"

\* the result the 8-factor rubric gives the same charts with exceptions
\* disabled: the factor scores before any exception
Unexcepted ==
    CalculateNorthIndianMatch(match.bride_nakshatra, match.bride_rashi, match.groom_nakshatra, match.groom_rashi, FALSE)

\* C23: when the Nadi factor scores zero, exceptions are enabled and bride
\* and groom share a sign but differ in mansion, the Nadi dosha flag is
\* cleared, the Nadi factor is set to 4 (not 8), total_points rises by
\* exactly 4 and exactly one exception is logged; in every other case no
\* exception is logged and no factor score is altered; the Bhakoot dosha is
\* never cancelled.
C23_NadiExceptionRestoresFour ==
    match.op = "north" =>
        LET R == match.result
            applies ==
                /\ Unexcepted.kootas[8].scored_points = 0
                /\ match.apply_exceptions
                /\ match.bride_rashi = match.groom_rashi
                /\ match.bride_nakshatra # match.groom_nakshatra
        IN  /\ R.kootas[8].name = "Nadi" /\ R.kootas[7].name = "Bhakoot"
            /\ \A i \in 1..7 : R.kootas[i] = Unexcepted.kootas[i]
            /\ R.bhakoot_dosha = (Unexcepted.kootas[7].scored_points = 0)
            /\ applies =>
                  /\ ~R.nadi_dosha
                  /\ R.kootas[8].scored_points = 2 * 4
                  /\ R.total_points = Unexcepted.total_points + 2 * 4
                  /\ Len(R.exceptions_applied) = 1
            /\ ~applies =>
                  /\ R.exceptions_applied = <<>>
                  /\ R.kootas[8] = Unexcepted.kootas[8]
                  /\ R.total_points = Unexcepted.total_points
                  /\ R.nadi_dosha = (Unexcepted.kootas[8].scored_points = 0)

\* bride (1, 1) and groom (6, 1), same nadi and same sign, scored with
\* exceptions enabled: 23.5 points before the exception, 27.5 returned
C23_Witness ==
    /\ match.op = "north"
    /\ match.apply_exceptions
    /\ match.bride_nakshatra = 1 /\ match.groom_nakshatra = 6
    /\ match.bride_rashi = 1 /\ match.groom_rashi = 1
    /\ Unexcepted.nadi_dosha
    /\ ~match.result.nadi_dosha
    /\ Unexcepted.total_points = 47
    /\ match.result.total_points = 55
    /\ Len(match.result.exceptions_applied) = 1

\* C27: in every 8-factor result, those where the exception restored
\* points included, percentage equals total_points / 36 x 100 for the
\* returned total_points, and the recommendation is the ladder tier of
\* that returned total unless the both-dosha caution applies.
C27_PercentageOfReturnedTotal ==
    match.op = "north" =>
        /\ match.result.percentage = match.result.total_points * 100
        /\ ~(match.result.nadi_dosha /\ match.result.bhakoot_dosha) =>
              match.result.overall_recommendation = NorthLadder(match.result.total_points * 100)

C13_KetuOppositeRahu ==
    lastCalc.op = "birth_chart_planets" =>
        LET planets == lastCalc.result.planets
        IN  /\ lastCalc.result.error = ""
            /\ Len(planets) = 9
            /\ planets[8].name = "Rahu" /\ planets[9].name = "Ketu"
            /\ planets[8].longitude \in 0..(FullCircle - 1)
            /\ planets[9].longitude \in 0..(FullCircle - 1)
            /\ \/ planets[9].longitude = planets[8].longitude + FullCircle \div 2
               \/ planets[9].longitude = planets[8].longitude - FullCircle \div 2
            /\ planets[9].speed = 0 - planets[8].speed
            /\ planets[9].is_retrograde

\* a chart whose Rahu is past 180 degrees and moving backwards: Ketu wraps
\* around zero, moves forwards and is flagged retrograde all the same
C13_Witness ==
    /\ lastCalc.op = "birth_chart_planets"
    /\ lastCalc.result.error = ""
    /\ lastCalc.result.planets[8].longitude > FullCircle \div 2
    /\ lastCalc.result.planets[8].speed < 0
    /\ lastCalc.result.planets[9].longitude = lastCalc.result.planets[8].longitude - FullCircle \div 2
    /\ lastCalc.result.planets[9].speed > 0
    /\ lastCalc.result.planets[9].is_retrograde

\* C14: the level-1 periods calculate_vimshottari_dasha returns are
\* contiguous and do not overlap: the first starts at the birth moment,
\* every period ends where the next one starts, and none ends before it
\* starts, for every Moon longitude and horizon.
C14_TimelineContiguous ==
    lastCalc.op = "calculate_vimshottari_dasha" =>
        /\ Len(lastCalc.result) >= 1
        /\ lastCalc.result[1].start_date = lastCalc.birth_datetime
        /\ \A i \in 1..Len(lastCalc.result) :
              /\ lastCalc.result[i].level = 1
              /\ lastCalc.result[i].start_date <= lastCalc.result[i].end_date
        /\ \A i \in 1..(Len(lastCalc.result) - 1) :
              lastCalc.result[i].end_date = lastCalc.result[i + 1].start_date

\* a timeline of several periods for a birth that is not at the epoch, the
\* first period cut short by the Moon's progress through its mansion
C14_Witness ==
    /\ lastCalc.op = "calculate_vimshottari_dasha"
    /\ lastCalc.birth_datetime > 0
    /\ lastCalc.moon_longitude % NakshatraSpan = NakshatraSpan \div 2
    /\ Len(lastCalc.result) >= 3
    /\ lastCalc.result[1].end_date > lastCalc.result[1].start_date
    /\ lastCalc.result[2].start_date = lastCalc.result[1].end_date

\* the years the nine rulers are allotted, added up
AllocationsTotal == SumSeq([i \in 1..9 |-> VIMSHOTTARI_PERIODS[VIMSHOTTARI_SEQUENCE[i]]])

\* C15: the nine allocations sum to 120 years, and the level-1 timeline of
\* the default 120-year horizon spans exactly one such cycle: every ruler's
\* period appears once, and the periods together with the part of the first
\* period that elapsed before birth last 120 years.
C15_TimelineIsOneCycle ==
    /\ AllocationsTotal = CycleYears
    /\ (lastCalc.op = "calculate_vimshottari_dasha" /\ lastCalc.years_forward = CycleYears) =>
          LET periods == lastCalc.result
              first == periods[1]
              elapsed == VIMSHOTTARI_PERIODS[first.planet] * YearTicks - (first.end_date - first.start_date)
          IN  /\ \A i \in 1..9 : Cardinality({j \in 1..Len(periods) : periods[j].planet = VIMSHOTTARI_SEQUENCE[i]}) = 1
              /\ Len(periods) = 9
              /\ (periods[Len(periods)].end_date - first.start_date) + elapsed = CycleYears * YearTicks

\* C16: for every level-1 period, calculate_antardasha returns nine
\* sub-periods, each lasting the parent's duration times allocation / 120
\* to within a day, whose durations sum to the parent's duration to within
\* less than one day.
C16_AntardashasFillParent ==
    (lastCalc.op = "calculate_antardasha" /\ lastCalc.maha_dasha.level = 1) =>
        LET parent == lastCalc.maha_dasha.end_date - lastCalc.maha_dasha.start_date
            share == parent \div CycleYears
            duration(i) == lastCalc.result[i].end_date - lastCalc.result[i].start_date
            total == SumSeq([i \in 1..Len(lastCalc.result) |-> duration(i)])
        IN  /\ Len(lastCalc.result) = 9
            /\ \A i \in 1..9 :
                  LET years == VIMSHOTTARI_PERIODS[lastCalc.result[i].planet]
                  IN  /\ duration(i) <= share * years
                      /\ (share + 1) * years - duration(i) < TicksPerDay
            /\ total <= parent
            /\ parent - total < TicksPerDay

\* the sub-periods of a level-1 period that does not last a whole number
\* of days: their durations sum to less than the parent's
C16_Witness ==
    /\ lastCalc.op = "calculate_antardasha"
    /\ lastCalc.maha_dasha.level = 1
    /\ (lastCalc.maha_dasha.end_date - lastCalc.maha_dasha.start_date) % TicksPerDay # 0
    /\ lastCalc.maha_dasha.end_date - lastCalc.maha_dasha.start_date > 365 * TicksPerDay
    /\ lastCalc.result[9].end_date < lastCalc.maha_dasha.end_date
    /\ lastCalc.maha_dasha.end_date - lastCalc.result[9].end_date < TicksPerDay

\* C17: calculate_antardasha returns periods whose level is the parent's
\* level plus one: level 2 under a level-1 parent, level 3 under a level-2
\* parent.
C17_SubPeriodsOneLevelDown ==
    lastCalc.op = "calculate_antardasha" =>
        \A i \in 1..Len(lastCalc.result) :
            lastCalc.result[i].level = lastCalc.maha_dasha.level + 1

\* C24: the sub-periods of a period are nine contiguous periods in cycle
\* order starting with the parent's own ruler; the first starts at the
\* parent's start and the last ends exactly at the parent's end.
C24_SubPeriodsEndWithParent ==
    lastCalc.op = "calculate_antardasha" =>
        LET parent == lastCalc.maha_dasha
            sub == lastCalc.result
        IN  /\ Len(sub) = 9
            /\ \A i \in 1..9 : sub[i].planet = LordAfter(SequenceIndex(parent.planet), i - 1)
            /\ sub[1].start_date = parent.start_date
            /\ \A i \in 1..8 : sub[i].end_date = sub[i + 1].start_date
            /\ sub[9].end_date = parent.end_date

\* C25: the first level-1 period is ruled by the ruler of the Moon's birth
\* mansion, the ((mansion - 1) mod 9)-th entry of the cycle, starts at
\* birth and lasts that ruler's allocation times the fraction of the
\* mansion's arc the Moon has yet to traverse; every later period has its
\* ruler's full allocation and follows the cycle order.
C25_FirstPeriodIsRemainder ==
    lastCalc.op = "calculate_vimshottari_dasha" =>
        LET moon == lastCalc.moon_longitude
            mansion == (moon \div NakshatraSpan) + 1
            ruler == VIMSHOTTARI_SEQUENCE[((mansion - 1) % 9) + 1]
            ahead == NakshatraSpan - (moon % NakshatraSpan)
            periods == lastCalc.result
        IN  /\ Len(periods) >= 1
            /\ periods[1].planet = ruler
            /\ periods[1].start_date = lastCalc.birth_datetime
            /\ periods[1].end_date - periods[1].start_date = VIMSHOTTARI_PERIODS[ruler] * ahead * (YearTicks \div NakshatraSpan)
            /\ \A i \in 2..Len(periods) :
                  /\ periods[i].planet = LordAfter(SequenceIndex(ruler), i - 1)
                  /\ periods[i].start_date = periods[i - 1].end_date
                  /\ periods[i].end_date - periods[i].start_date = VIMSHOTTARI_PERIODS[periods[i].planet] * YearTicks

(***************************************************************************)
(* Claims about the fallbacks and the inauspicious intervals of the        *)
(* calendar.                                                               *)
(***************************************************************************)
\* C18: an unknown correction-scheme name raises no error and falls back
\* to lahiri: every service holds a known scheme, and an operation asked
\* for an unknown scheme computes its positions under lahiri and records
\* lahiri, the scheme actually used, in its result.
C18_UnknownSchemeFallsBack ==
    /\ \A i \in 1..Len(ephObjs) : ephObjs[i] \in DOMAIN AYANAMSA_OPTIONS
    /\ (lastCalc.op \in {"calculate_birth_chart", "calculate_panchang"} /\ lastCalc.requested \notin DOMAIN AYANAMSA_OPTIONS) =>
          /\ lastCalc.ayanamsa = "lahiri"
          /\ lastCalc.sun = GetPlanetPosition(lastCalc.tropical, AYANAMSA_OPTIONS["lahiri"])

\* the interval of the given type as _calculate_inauspicious_period derives
\* it from the sun timing of the calendar last returned
DerivedInterval(order) ==
    LET sun_timing == lastCalc.result.sun_timing
        segment == order[VedicWeekday(lastCalc.date) + 1]
        start == sun_timing.sunrise + (sun_timing.day_duration \div 8) * (segment - 1)
    IN  [start |-> start, end |-> start + sun_timing.day_duration \div 8]

\* C19: when the sunrise search or the sunset search fails, or both,
\* calculate_panchang does not fail and returns a complete calendar:
\* sunrise is 06:00 of the requested date, respectively sunset 18:00, and
\* the day duration and the three inauspicious intervals are derived from
\* those times.
C19_FallbackSunTimes ==
    (lastCalc.op = "calculate_panchang_on" /\ (lastCalc.sky.sunrise = SearchFailed \/ lastCalc.sky.sunset = SearchFailed)) =>
        LET result == lastCalc.result
            day == Midnight(DayOf(lastCalc.date))
        IN  /\ ~Raised(result)
            /\ lastCalc.sky.sunrise = SearchFailed => result.sun_timing.sunrise = day + 6 * Hour
            /\ lastCalc.sky.sunset = SearchFailed => result.sun_timing.sunset = day + 18 * Hour
            /\ lastCalc.sky.sunrise # SearchFailed => result.sun_timing.sunrise = day + lastCalc.sky.sunrise * Second
            /\ lastCalc.sky.sunset # SearchFailed => result.sun_timing.sunset = day + lastCalc.sky.sunset * Second
            /\ result.sun_timing.day_duration = result.sun_timing.sunset - result.sun_timing.sunrise
            /\ result.rahu_kalam.start = DerivedInterval(RAHU_KALAM_ORDER).start
            /\ result.rahu_kalam.end = DerivedInterval(RAHU_KALAM_ORDER).end
            /\ result.yamagandam.start = DerivedInterval(YAMAGANDAM_ORDER).start
            /\ result.yamagandam.end = DerivedInterval(YAMAGANDAM_ORDER).end
            /\ result.gulika_kalam.start = DerivedInterval(GULIKA_ORDER).start
            /\ result.gulika_kalam.end = DerivedInterval(GULIKA_ORDER).end
            /\ result.tithi.number \in 1..30
            /\ result.nakshatra.number \in 1..27
            /\ result.date = lastCalc.date

\* C20: each of the three inauspicious intervals of a calendar is one of
\* the 8 equal segments of the sunrise-sunset span, start = sunrise +
\* (k - 1) * span / 8 and end = start + span / 8, with k in 1..8 taken from
\* the interval type's per-weekday table (Sunday = 0), so that sunrise <=
\* start < end <= sunset on every weekday.
C20_IntervalIsOneEighthOfDay ==
    (lastCalc.op = "calculate_panchang_on" /\ ~Raised(lastCalc.result)) =>
        \A pair \in {<<lastCalc.result.rahu_kalam, RAHU_KALAM_ORDER>>, <<lastCalc.result.yamagandam, YAMAGANDAM_ORDER>>, <<lastCalc.result.gulika_kalam, GULIKA_ORDER>>} :
            LET interval == pair[1]
                k == pair[2][VedicWeekday(lastCalc.date) + 1]
                sun_timing == lastCalc.result.sun_timing
                span == sun_timing.sunset - sun_timing.sunrise
            IN  /\ k \in 1..8
                /\ (interval.end - interval.start) * 8 = span
                /\ interval.start = sun_timing.sunrise + (k - 1) * (interval.end - interval.start)
                /\ sun_timing.sunrise <= interval.start
                /\ interval.start < interval.end
                /\ interval.end <= sun_timing.sunset

\* C21: for all Sun and Moon longitudes in [0, 360) the elements are in
\* range: tithi number in 1..30 with paksha Shukla exactly when the number
\* is at most 15, nakshatra number in 1..27 with pada in 1..4, yoga number
\* in 1..27 and karana number in 1..11.
C21_ElementsInRange ==
    lastCalc.op = "calculate_elements" =>
        /\ lastCalc.tithi.number \in 1..30
        /\ (lastCalc.tithi.paksha = "Shukla") <=> (lastCalc.tithi.number <= 15)
        /\ lastCalc.tithi.paksha \in {"Shukla", "Krishna"}
        /\ lastCalc.nakshatra.number \in 1..27
        /\ lastCalc.nakshatra.pada \in 1..4
        /\ lastCalc.yoga.number \in 1..27
        /\ lastCalc.karana.number \in 1..Len(KARANA_NAMES)

\* the karana of the h-th half-day of the lunar month, h in 1..60
HalfDayKarana(h) ==
    CalculateKarana(((h - 1) \div 2) + 1, IF h % 2 = 1 THEN 0 ELSE TithiSpan \div 2)

\* the half-days of the month on which the karana has the given name
HalfDaysNamed(name) == {h \in 1..60 : HalfDayKarana(h).name = name}

\* C26: the karana is a function only of the tithi number and of which
\* half of the tithi has elapsed; over the 60 half-days of a lunar month
\* the 7 movable karanas cycle in fixed order and each occurs exactly 8
\* times, and the 4 fixed karanas occur exactly once each, at the month's
\* boundary half-days.
C26_KaranaByHalfDay ==
    lastCalc.op = "calculate_elements" =>
        LET half == IF 2 * lastCalc.tithi.elapsed < TithiSpan THEN 1 ELSE 2
            h == (lastCalc.tithi.number - 1) * 2 + half
        IN  /\ lastCalc.karana = HalfDayKarana(h)
            /\ \A i \in 1..7 :
                  /\ Cardinality(HalfDaysNamed(KARANA_NAMES[i])) = 8
                  /\ \A d \in HalfDaysNamed(KARANA_NAMES[i]) : HalfDayKarana(d).nature = "Movable"
            /\ \A i \in 8..11 :
                  /\ Cardinality(HalfDaysNamed(KARANA_NAMES[i])) = 1
                  /\ \A d \in HalfDaysNamed(KARANA_NAMES[i]) : HalfDayKarana(d).nature = "Fixed"
            /\ {d \in 1..60 : HalfDayKarana(d).nature = "Fixed"} = {1, 58, 59, 60}
            /\ \A d \in 2..56 :
                  IndexOf(KARANA_NAMES, HalfDayKarana(d + 1).name) = (IndexOf(KARANA_NAMES, HalfDayKarana(d).name) % 7) + 1

\* the second half of the 29th tithi: the first of the closing fixed karanas
C26_Witness ==
    /\ lastCalc.op = "calculate_elements"
    /\ lastCalc.tithi.number = 29
    /\ 2 * lastCalc.tithi.elapsed >= TithiSpan
    /\ lastCalc.karana.number = 58
    /\ lastCalc.karana.name = "Shakuni"
    /\ lastCalc.karana.nature = "Fixed"

\* C28: in every calendar whose sunrise and sunset searches both succeed,
\* sunrise strictly precedes sunset and day_duration is positive and under
\* 24 hours, the sunrise being the first rising after 00:00 UTC of the
\* date and the sunset the first setting after 12:00 UTC of the date.
C28_SunriseBeforeSunset ==
    (/\ lastCalc.op = "calculate_panchang_on"
     /\ lastCalc.sky.sunrise # SearchFailed
     /\ lastCalc.sky.sunset # SearchFailed) =>
        /\ lastCalc.result.sun_timing.sunrise < lastCalc.result.sun_timing.sunset
        /\ lastCalc.result.sun_timing.day_duration > 0
        /\ lastCalc.result.sun_timing.day_duration < Day

\* C22: the day's base score is 50, plus 10 if the tithi is in the event's
\* good table and minus 10 otherwise, plus 15 if the nakshatra is in the
\* event's good table and minus 15 otherwise, plus 10 if the weekday is
\* good and minus 10 otherwise, minus 15 if the yoga is on the event's
\* avoid list or else plus 10 if it is auspicious, and minus 10 if the
\* lunar month is on the event's avoid list.
C22_BaseScore ==
    lastCalc.op = "_evaluate_day" =>
        LET panchang == lastCalc.panchang
            rules == lastCalc.rules
        IN  lastCalc.score =
                50
                + (IF panchang.tithi.number \in rules.good_tithis THEN 10 ELSE -10)
                + (IF panchang.nakshatra.number \in rules.good_nakshatras THEN 15 ELSE -15)
                + (IF VedicWeekday(panchang.date) \in rules.good_weekdays THEN 10 ELSE -10)
                + (IF panchang.yoga.name \in rules.avoid_yogas THEN -15
                   ELSE IF panchang.yoga.nature = "Auspicious" THEN 10 ELSE 0)
                + (IF panchang.masa \in rules.avoid_lunar_months THEN -10 ELSE 0)

\* C22, as the code has it: the day's base score is 50, plus 10 for a good
\* tithi and minus 10 otherwise, plus 15 for a good nakshatra and minus 10
\* otherwise, plus 10 for a good weekday and minus 5 otherwise, minus 15
\* for a yoga on the avoid list or else plus 10 for an auspicious one, and
\* minus 10 for a lunar month on the avoid list.
C22_BaseScoreUneven ==
    lastCalc.op = "_evaluate_day" =>
        LET panchang == lastCalc.panchang
            rules == lastCalc.rules
            base ==
                50
                + (IF panchang.tithi.number \in rules.good_tithis THEN 10 ELSE -10)
                + (IF panchang.nakshatra.number \in rules.good_nakshatras THEN 15 ELSE -10)
                + (IF VedicWeekday(panchang.date) \in rules.good_weekdays THEN 10 ELSE -5)
                + (IF panchang.yoga.name \in rules.avoid_yogas THEN -15
                   ELSE IF panchang.yoga.nature = "Auspicious" THEN 10 ELSE 0)
                + (IF panchang.masa \in rules.avoid_lunar_months THEN -10 ELSE 0)
        IN  lastCalc.score = base

\* a Tuesday evaluated for a marriage with the Moon in Ashwini: neither
\* the weekday nor the nakshatra is good, the tithi is, the yoga is
\* auspicious; 50 + 10 - 10 - 5 + 10 = 55, and a window is returned
C22_Witness ==
    /\ lastCalc.op = "_evaluate_day"
    /\ lastCalc.event_type = "marriage"
    /\ lastCalc.panchang.nakshatra.number = 1
    /\ lastCalc.panchang.nakshatra.number \notin lastCalc.rules.good_nakshatras
    /\ VedicWeekday(lastCalc.panchang.date) = 2
    /\ VedicWeekday(lastCalc.panchang.date) \notin lastCalc.rules.good_weekdays
    /\ lastCalc.score = 55
    /\ Len(lastCalc.result) > 0

\* the total length of a list of <<start, end>> windows
RECURSIVE TotalLength(_)
TotalLength(windows) ==
    IF windows = <<>> THEN 0
    ELSE (Head(windows)[2] - Head(windows)[1]) + TotalLength(Tail(windows))

\* C29: on every weekday the three per-weekday tables select three
\* different segments, so Rahu Kalam, Yamagandam and Gulika Kalam never
\* overlap each other, and with the default filters the clear windows of
\* the day (before the 30-minute filter) total exactly 5/8 of the span
\* from sunrise to sunset.
C29_ClearFiveEighths ==
    (lastCalc.op = "_evaluate_day" /\ lastCalc.avoid_rahu_kalam /\ lastCalc.avoid_yamagandam) =>
        LET panchang == lastCalc.panchang
            periods == <<panchang.rahu_kalam, panchang.yamagandam, panchang.gulika_kalam>>
        IN  /\ \A weekday \in 0..6 :
                  Cardinality({RAHU_KALAM_ORDER[weekday + 1], YAMAGANDAM_ORDER[weekday + 1], GULIKA_ORDER[weekday + 1]}) = 3
            /\ \A i, j \in 1..3 :
                  i # j => (periods[i].end <= periods[j].start \/ periods[j].end <= periods[i].start)
            /\ 8 * TotalLength(lastCalc.clear_windows) = 5 * (panchang.sun_timing.sunset - panchang.sun_timing.sunrise)

\* C30: after any sequence of accessor calls, get_muhurat_service(a),
\* get_panchang_service(a) and get_ephemeris_service(a) each return a
\* service configured for scheme a: the calendar engine of the search
\* service returned, and the sidereal mode in effect when it computes,
\* are those of a and not of the scheme of an earlier call.
C30_AccessorReturnsRequestedScheme ==
    LET a == EffectiveAyanamsa(lastCalc.requested)
    IN  /\ lastCalc.op = "get_muhurat_service" =>
              /\ EffectiveAyanamsa(lastCalc.service.panchang_service.ayanamsa) = a
              /\ lastCalc.ayanamsa = a
              /\ lastCalc.mode = AYANAMSA_OPTIONS[a]
        /\ lastCalc.op = "get_panchang_service" =>
              /\ EffectiveAyanamsa(lastCalc.service.ayanamsa) = a
              /\ lastCalc.ayanamsa = a
              /\ lastCalc.mode = AYANAMSA_OPTIONS[a]
        /\ lastCalc.op = "get_ephemeris_service" =>
              /\ lastCalc.ayanamsa = a
              /\ lastCalc.mode = AYANAMSA_OPTIONS[a]
====
